---------------------------- MODULE Spec2Model ----------------------------
(***************************************************************************)
(* Text-command dispatch of peridotjs: one invocation of a command built   *)
(* by createTextCommand, from the PreTextCommandRun precondition, through  *)
(* the parse of the parameters into positionals and flags, the walk of the *)
(* subcommand tree, and the help / default-fallback / execute tail (Spec).  *)
(* Beside it, on their own: the token stream (StreamSpec), the strategy    *)
(* and the parse (ParseSpec), and the integer argument (IntegerSpec).      *)
(***************************************************************************)
EXTENDS Integers, Sequences, FiniteSets, TLC

(***************************************************************************)
(* Bounds of the model.                                                    *)
(***************************************************************************)
\* the longest invocation text, in pieces
MaxPieces == 3

\* the most checkpoints a user of the stream keeps outstanding
MaxDepth == 3

\* the longest text given to the parser on its own, in pieces
MaxParsed == 2

\* the longest parameter given to the integer argument, in characters
MaxChars == 2

\* the most lines of a help text
MaxLines == 3

\* the characters of help text the dispatcher puts into one reply
Budget == 1950

\* the characters a reply can hold
ReplyLimit == 2000

(***************************************************************************)
(* PermissionLevel (structures/permissions.ts).                            *)
(***************************************************************************)
BLOCKED == 0
REGULAR == 1
MODERATOR == 2
ADMINISTRATOR == 3
OWNER == 4

(***************************************************************************)
(* Pieces of the invocation text.  A piece is its prefix ("" for a bare    *)
(* word), the text up to the first separator after the prefix, that        *)
(* separator ("" when there is none) and the text after it; its full text  *)
(* is prefix + name + sep + value.                                         *)
(***************************************************************************)
Word(n) == [prefix |-> "", name |-> n, sep |-> "", value |-> ""]

Dashed(n) == [prefix |-> "--", name |-> n, sep |-> "", value |-> ""]

Keyed(n, v) == [prefix |-> "--", name |-> n, sep |-> "=", value |-> v]

Pieces ==
    { Word("remote"), Word("add"), Word("a"), Word("status"), Word("origin"),
      Word(""), Dashed("help"), Dashed("force") }

RECURSIVE SeqsUpTo(_, _)
SeqsUpTo(S, n) ==
    IF n = 0 THEN { <<>> }
    ELSE LET shorter == SeqsUpTo(S, n - 1)
         IN  shorter \cup { Append(s, x) : s \in { t \in shorter : Len(t) = n - 1 }, x \in S }

Range(s) == { s[i] : i \in 1..Len(s) }

Last(s) == s[Len(s)]

(***************************************************************************)
(* The command trees.  Four registrations of the same shape that differ    *)
(* in their default flags and aliases:                                     *)
(*   A: status is the top-level default, list the default child of remote  *)
(*   B: no subcommand is flagged default                                   *)
(*   C: the Group remote is the top-level default                          *)
(*   D: remote and status are both flagged default at the top level, and   *)
(*      list carries the alias a that its sibling add carries too          *)
(* remote is a Group with a canRun predicate; add (alias a) requires       *)
(* MODERATOR; status requires MODERATOR and has a canRun predicate.        *)
(***************************************************************************)
Trees == { "A", "B", "C", "D" }

NodeIds == { "remote", "add", "list", "status" }

Subcommands(owner) ==
    CASE owner = "root" -> << "remote", "status" >>
      [] owner = "remote" -> << "add", "list" >>
      [] OTHER -> << >>

IsDefault(t, id) ==
    \/ t = "A" /\ id \in { "status", "list" }
    \/ t = "C" /\ id = "remote"
    \/ t = "D" /\ id \in { "remote", "status" }

Node(t, id) ==
    CASE id = "remote" ->
            [ name |-> "remote", aliases |-> {}, kind |-> "group",
              hasPermission |-> FALSE, permission |-> BLOCKED,
              hasCanRun |-> TRUE, default |-> IsDefault(t, id) ]
      [] id = "add" ->
            [ name |-> "add", aliases |-> { "a" }, kind |-> "leaf",
              hasPermission |-> TRUE, permission |-> MODERATOR,
              hasCanRun |-> (t = "B"), default |-> IsDefault(t, id) ]
      [] id = "list" ->
            [ name |-> "list", aliases |-> IF t = "D" THEN { "a" } ELSE {},
              kind |-> "leaf",
              hasPermission |-> FALSE, permission |-> BLOCKED,
              hasCanRun |-> FALSE, default |-> IsDefault(t, id) ]
      [] id = "status" ->
            [ name |-> "status", aliases |-> {}, kind |-> "leaf",
              hasPermission |-> TRUE, permission |-> MODERATOR,
              hasCanRun |-> TRUE, default |-> IsDefault(t, id) ]

\* 'run' in cmd
IsLeaf(t, id) == id \in NodeIds /\ Node(t, id).kind = "leaf"

IsGroup(t, id) == id \in NodeIds /\ Node(t, id).kind = "group"

\* the Leaf or Group itself and every Group above it
RECURSIVE Route(_)
Route(id) ==
    { id } \cup UNION { Route(g) : g \in { h \in NodeIds : id \in Range(Subcommands(h)) } }

VARIABLES
    tree,               \* the registered GroupTextCommand
    rootPermission,     \* command.data.permission
    flagsConfig,        \* command.data.strategy.flags as written
    optionsConfig,      \* command.data.strategy.options as written
    flagsPolicy,        \* the strategy's flags: "all" (true), "none" or "listed"
    optionsPolicy,      \* the strategy's options: "all" (true), "none" or "listed"
    memberLevel,        \* getPermissionLevel(member, container.permissionConfig)
    parameters,         \* the invocation text after the command name, in pieces
    pc,                 \* where the invocation stands
    ordered,            \* the stream's positionals
    flags,              \* the stream's flag names
    options,            \* the stream's options: << name, value >> in their order
    index,              \* the stream's cursor: positionals consumed
    states,             \* the stream's stack of saved cursors
    currentSubcommands, \* owner of the current sibling set: "root" or a Group
    subcommandPath,     \* tokens of the matched subcommands
    currentSubcommand,  \* the last matched (or default) subcommand, or "none"
    found,              \* the subcommand whose canRun is awaited, or "none"
    result,             \* "pending", "denied", "help", "ran" or "error"
    error,              \* identifier of the UserError raised, or "none"
    message,            \* message of the UserError raised, or << >>: its parts
                        \* in order, without the quoting marks around names
    ranNode,            \* the Leaf whose run was invoked, or "none"
    log,                \* what the invocation did, in order
    mark,               \* what is remembered of the stream's past operations
    parameter,          \* the text given to an argument, in characters
    context,            \* the argument's context: minimum and maximum
    resolved,           \* the Argument.Result of the argument, or NotRun
    suspended,          \* another invocation of the command, waiting its turn
    payload,            \* what the handlers of the events read of the message
                        \* and the command besides the levels: the guild, and
                        \* how command.run and command.onError end
    handlers,           \* TextCommandRegistry.handlers: name to command
    aliases,            \* TextCommandRegistry.aliases: alias to name
    handler,            \* what the last getHandler was asked and gave
    helpLines,          \* the lengths of the lines generateHelp returned
    blocks              \* the blocks of help text replied, each its lines

\* the state of the registry of text commands
registry == << handlers, aliases, handler >>

vars ==
    << tree, rootPermission, flagsConfig, optionsConfig, flagsPolicy,
       optionsPolicy, memberLevel, parameters, pc, ordered, flags, options,
       index, states, currentSubcommands, subcommandPath, currentSubcommand,
       found, result, error, message, ranNode, log, mark, parameter, context,
       resolved, suspended, payload, registry, helpLines, blocks >>

\* the state of an argument
argument == << parameter, context, resolved >>

\* the state of the help replies
chunks == << helpLines, blocks >>

input ==
    << tree, rootPermission, flagsConfig, optionsConfig, flagsPolicy,
       optionsPolicy, memberLevel, parameters, mark, argument, suspended,
       payload, registry, chunks >>

\* the state of the dispatcher
walk ==
    << currentSubcommands, subcommandPath, currentSubcommand, found, result,
       error, message, ranNode >>

NoTok == Word("")

\* a name that a Map of the registry does not hold: Map.get gives undefined
Undefined == "undefined"

\* the names and aliases the commands of the registry are written with
Keys == { "ping", "pong", "pull", "p", "q" }

\* handlers.get(name) of a name the registry does not hold
NoHandler == [ id |-> 0, name |-> Undefined, aliases |-> { } ]

\* the commands that are registered and unregistered: two share an alias,
\* one has another's name as its alias, two have the same name
TextCommands ==
    { [ id |-> 1, name |-> "ping", aliases |-> { "p" } ],
      [ id |-> 2, name |-> "pong", aliases |-> { "p", "q" } ],
      [ id |-> 3, name |-> "pull", aliases |-> { "ping" } ],
      [ id |-> 4, name |-> "ping", aliases |-> { } ] }

\* getHandler has not been asked
NotAsked == [ name |-> Undefined, handler |-> NoHandler ]

\* new TextCommandRegistry(): both Maps empty
EmptyRegistry ==
    /\ handlers = [ k \in Keys |-> NoHandler ]
    /\ aliases = [ k \in Keys |-> Undefined ]
    /\ handler = NotAsked

Ev(op, node, tok, ok) == [ op |-> op, node |-> node, tok |-> tok, ok |-> ok ]

(***************************************************************************)
(* Parse of the parameters (messagePreParse with FlagUnorderedStrategy).   *)
(***************************************************************************)
\* what strategy.flags and strategy.options can be written as
Configs == { "true", "false", "omitted", "empty", "listed" }

\* the flag names the strategy's allow-list holds when it is a list
ListedFlags == { "force" }

\* the option names the strategy's allow-list holds when it is a list
ListedOptions == { "depth" }

\* the constructor taking the list for an allow-all where it is an allow-none
PolicyOfLax(config) ==
    CASE config = "listed" -> "listed"
      [] OTHER -> "all"

\* FlagUnorderedStrategy's constructor: flags || [] (options || []), then
\* true makes every name allowed and an empty list makes the match `never`
PolicyOf(config) ==
    CASE config = "true" -> "all"
      [] config = "listed" -> "listed"
      [] OTHER -> "none"

\* PrefixedStrategy.matchFlag: a prefix, and no separator after it
PrefixedMatchFlag(piece) == piece.prefix # "" /\ piece.sep = ""

\* PrefixedStrategy.matchOption: a prefix, a name, a separator, and a value
PrefixedMatchOption(piece) ==
    piece.prefix # "" /\ piece.name # "" /\ piece.sep # "" /\ piece.value # ""

\* FlagUnorderedStrategy.allowedFlag, or `always` when flags is true
AllowedFlag(policy, n) == policy = "all" \/ (policy = "listed" /\ n \in ListedFlags)

\* FlagUnorderedStrategy.allowedOption, or `always` when options is true
AllowedOption(policy, n) == policy = "all" \/ (policy = "listed" /\ n \in ListedOptions)

\* the allow-list of the flags left unread
MatchFlagAny(policy, piece) == policy # "none" /\ PrefixedMatchFlag(piece)

\* FlagUnorderedStrategy.matchFlag: the prefixed syntax, and an allowed name
MatchFlag(policy, piece) ==
    policy # "none" /\ PrefixedMatchFlag(piece) /\ AllowedFlag(policy, piece.name)

\* the allow-list of the options left unread
MatchOptionAny(policy, piece) == policy # "none" /\ PrefixedMatchOption(piece)

\* FlagUnorderedStrategy.matchOption: the prefixed syntax, and an allowed name
MatchOption(policy, piece) ==
    policy # "none" /\ PrefixedMatchOption(piece) /\ AllowedOption(policy, piece.name)

\* ParserResult.parse, one piece: an option, a flag, or a positional
Kind(fpolicy, opolicy, piece) ==
    IF MatchOption(opolicy, piece) THEN "option"
    ELSE IF MatchFlag(fpolicy, piece) THEN "flag"
    ELSE "ordered"

\* every piece kept among the positionals, whatever else it is
ParseOrderedAll(fpolicy, opolicy, pieces) == pieces

\* Parser.run: the pieces that are neither flag nor option, in their order
ParseOrdered(fpolicy, opolicy, pieces) ==
    SelectSeq(pieces, LAMBDA p : Kind(fpolicy, opolicy, p) = "ordered")

\* Parser.run: the names of the pieces that are flags
ParseFlags(fpolicy, opolicy, pieces) ==
    { pieces[i].name :
        i \in { j \in 1..Len(pieces) : Kind(fpolicy, opolicy, pieces[j]) = "flag" } }

RECURSIVE KeyValues(_)
KeyValues(pieces) ==
    IF pieces = << >> THEN << >>
    ELSE << << pieces[1].name, pieces[1].value >> >> \o KeyValues(Tail(pieces))

\* Parser.run: name and value of the pieces that are options, in their order
ParseOptions(fpolicy, opolicy, pieces) ==
    KeyValues(SelectSeq(pieces, LAMBDA p : Kind(fpolicy, opolicy, p) = "option"))

(***************************************************************************)
(* The token stream (Args): a cursor and a stack of saved cursors.         *)
(***************************************************************************)
\* args.finished
Finished(ord, idx) == idx >= Len(ord)

\* args.nextMaybe(): the positional under the cursor
NextMaybe(ord, idx) == ord[idx + 1]

\* args.save(): push the cursor
Save(stk, idx) == Append(stk, idx)

\* the cursor of the first checkpoint
RestoreFirst(stk) == stk[1]

\* args.restore(): the cursor of the last checkpoint
RestoreIndex(stk) == Last(stk)

\* the last checkpoint left on the stack
KeepAll(stk) == stk

\* args.restore() and args.discard(): pop the last checkpoint
Pop(stk) == SubSeq(stk, 1, Len(stk) - 1)

\* no flag seen
HasFlagsNever(flagSet, names) == FALSE

\* args.hasFlags(...names)
HasFlags(flagSet, names) == flagSet \cap names # {}

(***************************************************************************)
(* Lookups in the tree.                                                    *)
(***************************************************************************)
\* cmd.name === name || cmd.aliases?.includes(name), name the token's text
Names(t, id, tok) ==
    tok.prefix = "" /\ (tok.name = Node(t, id).name \/ tok.name \in Node(t, id).aliases)

\* Array.prototype.find: the first element of seq that is in hits, or "none"
FirstOf(seq, hits) ==
    LET at == { i \in 1..Len(seq) : seq[i] \in hits }
    IN  IF at = {} THEN "none"
        ELSE seq[CHOOSE i \in at : \A j \in at : i <= j]

FindSubcommand(t, owner, tok) ==
    FirstOf(Subcommands(owner), { id \in NodeIds : Names(t, id, tok) })

\* the path left unread: the command itself
FindByPathRoot(t, owner, path) == owner

\* the child found by its name alone
FindChildByName(t, owner, tok) ==
    FirstOf(Subcommands(owner),
            { id \in NodeIds : tok.prefix = "" /\ tok.name = Node(t, id).name })

\* subcommand.subcommands.find((cmd) => cmd.name === current ||
\* cmd.aliases?.includes(current)) of findSubcommandByPath
FindChild(t, owner, tok) ==
    FirstOf(Subcommands(owner),
            { id \in NodeIds :
                /\ tok.prefix = ""
                /\ \/ tok.name = Node(t, id).name
                   \/ tok.name \in Node(t, id).aliases })

\* findSubcommandByPath: the node the path's tokens lead to from owner,
\* "invalid" (null) when a token is empty or names no child
RECURSIVE FindSubcommandByPath(_, _, _)
FindSubcommandByPath(t, owner, path) ==
    IF path = << >> THEN owner
    ELSE IF Head(path) = Word("") THEN "invalid"
    ELSE IF IsLeaf(t, owner) THEN owner
    ELSE LET f == FindChild(t, owner, Head(path))
         IN  IF f = "none" THEN "invalid" ELSE FindSubcommandByPath(t, f, Tail(path))

\* currentSubcommands.find((cmd) => cmd.default)
FindDefault(t, owner) ==
    FirstOf(Subcommands(owner), { id \in NodeIds : Node(t, id).default })

\* the comparison of the gate reversed
PermissionRejectsReversed(t, id, rootPerm) ==
    /\ Node(t, id).hasPermission
    /\ Node(t, id).permission # 0
    /\ Node(t, id).permission < rootPerm

\* found.permission && found.permission > commandData.permission
PermissionRejects(t, id, rootPerm) ==
    /\ Node(t, id).hasPermission
    /\ Node(t, id).permission # 0
    /\ Node(t, id).permission > rootPerm

\* no argument was run
NotRun ==
    [ ok |-> FALSE, value |-> 0, identifier |-> "none", message |-> "none",
      parameter |-> << >> ]

NoArgument ==
    /\ parameter = << >>
    /\ context = [ minimum |-> 0, maximum |-> 0 ]
    /\ resolved = NotRun

\* no help was replied
NoHelp ==
    /\ helpLines = << >>
    /\ blocks = << >>

\* a message in a guild for a command that is for every guild
GuildMessage ==
    [ guild |-> TRUE, dm |-> FALSE, guilds |-> "omitted", run |-> "returns",
      onError |-> "none" ]

\* no other invocation
NoFrame == [ pc |-> "none" ]

\* nothing remembered
NoMark == [ since |-> -1, depth |-> 0, restored |-> -1, phase |-> 0, outer |-> 0,
            floor |-> 0, cleanFloor |-> 0 ]

(***************************************************************************)
(* Initial states: any tree, permission setting, strategy, caller and text *)
(***************************************************************************)
Init ==
    /\ tree \in Trees
    /\ rootPermission \in { REGULAR, MODERATOR }
    /\ flagsConfig \in { "true", "listed" }
    /\ optionsConfig = "true"
    /\ flagsPolicy = "none"
    /\ optionsPolicy = "none"
    /\ memberLevel \in { REGULAR, MODERATOR, ADMINISTRATOR }
    /\ parameters \in SeqsUpTo(Pieces, MaxPieces)
    /\ pc = "create"
    /\ ordered = << >>
    /\ flags = {}
    /\ options = << >>
    /\ index = 0
    /\ states = << >>
    /\ currentSubcommands = "root"
    /\ subcommandPath = << >>
    /\ currentSubcommand = "none"
    /\ found = "none"
    /\ result = "pending"
    /\ error = "none"
    /\ message = << >>
    /\ suspended = NoFrame
    /\ payload = GuildMessage
    /\ EmptyRegistry
    /\ ranNode = "none"
    /\ log = << >>
    /\ mark = NoMark
    /\ NoArgument
    /\ NoHelp

(***************************************************************************)
(* createTextCommand: the GroupTextCommand is wrapped into a TextCommand   *)
(* whose run walks the tree; the tree itself is taken as it is given.      *)
(***************************************************************************)
CreateTextCommand ==
    /\ pc = "create"
    /\ pc' = "pre"
    /\ UNCHANGED << input, ordered, flags, options, index, states, currentSubcommands,
                    subcommandPath, currentSubcommand, found, result, error,
                    message, ranNode, log >>

(***************************************************************************)
(* preTextCommandRun: the global preconditions of a message in a guild for *)
(* a command registered globally.                                          *)
(***************************************************************************)
PreTextCommandRun ==
    /\ pc = "pre"
    /\ IF memberLevel < rootPermission
       THEN /\ pc' = "done"
            /\ result' = "denied"
            /\ error' = "Preconditions.PermissionLevel"
            /\ UNCHANGED message
       ELSE /\ pc' = "accepted"
            /\ UNCHANGED << result, error, message >>
    /\ UNCHANGED << input, ordered, flags, options, index, states, currentSubcommands,
                    subcommandPath, currentSubcommand, found, ranNode, log >>

(***************************************************************************)
(* onTextCommandAccepted: parse the parameters and call command.run.       *)
(***************************************************************************)
TextCommandAccepted ==
    /\ pc = "accepted"
    /\ flagsPolicy' = PolicyOf(flagsConfig)
    /\ optionsPolicy' = PolicyOf(optionsConfig)
    /\ ordered' = ParseOrdered(flagsPolicy', optionsPolicy', parameters)
    /\ flags' = ParseFlags(flagsPolicy', optionsPolicy', parameters)
    /\ options' = ParseOptions(flagsPolicy', optionsPolicy', parameters)
    /\ pc' = "walk"
    /\ UNCHANGED << suspended, payload, registry, tree, rootPermission, flagsConfig, optionsConfig,
                    memberLevel, parameters, mark, argument, chunks, index, states, currentSubcommands, subcommandPath,
                    currentSubcommand, found, result, error, message, ranNode, log >>

(***************************************************************************)
(* createTextCommand(...).run: the walk of the subcommand tree.            *)
(***************************************************************************)
\* throw new UserError({ identifier })
Throw(id, text, events) ==
    /\ pc' = "done"
    /\ result' = "error"
    /\ error' = id
    /\ message' = text
    /\ log' = log \o events \o << Ev("throw", id, NoTok, FALSE) >>

\* the checkpoint discarded where it is to be restored
NoMatchDiscards(stk, events) ==
    /\ index' = RestoreIndex(stk) + 1
    /\ states' = Pop(stk)
    /\ pc' = "afterWalk"
    /\ log' = log \o events \o << Ev("discard", "none", NoTok, TRUE) >>
    /\ UNCHANGED << currentSubcommands, subcommandPath, currentSubcommand,
                    found, result, error, message, ranNode >>

\* the token is falsy or names no sibling: args.restore(); break
NoMatch(stk, events) ==
    /\ index' = RestoreIndex(stk)
    /\ states' = Pop(stk)
    /\ pc' = "afterWalk"
    /\ log' = log \o events \o << Ev("restore", "none", NoTok, TRUE) >>
    /\ UNCHANGED << currentSubcommands, subcommandPath, currentSubcommand,
                    found, result, error, message, ranNode >>

\* the subcommand's name pushed where the token is to be
CommitPushesName(id, tok, stk, idx, events) ==
    /\ states' = Pop(stk)
    /\ index' = idx
    /\ subcommandPath' = Append(subcommandPath, Word(Node(tree, id).name))
    /\ currentSubcommand' = id
    /\ found' = "none"
    /\ log' = log \o events \o << Ev("discard", id, tok, TRUE), Ev("push", id, tok, TRUE) >>
    /\ IF IsLeaf(tree, id)
       THEN pc' = "afterWalk" /\ UNCHANGED currentSubcommands
       ELSE pc' = "walk" /\ currentSubcommands' = id
    /\ UNCHANGED << result, error, message, ranNode >>

\* the break at a Leaf left out
CommitNoBreak(id, tok, stk, idx, events) ==
    /\ states' = Pop(stk)
    /\ index' = idx
    /\ subcommandPath' = Append(subcommandPath, tok)
    /\ currentSubcommand' = id
    /\ found' = "none"
    /\ log' = log \o events \o << Ev("discard", id, tok, TRUE), Ev("push", id, tok, TRUE) >>
    /\ pc' = "walk"
    /\ IF IsLeaf(tree, id)
       THEN UNCHANGED currentSubcommands
       ELSE currentSubcommands' = id
    /\ UNCHANGED << result, error, message, ranNode >>

\* args.restore() where args.discard() is to be: the token not consumed
CommitRestores(id, tok, stk, idx, events) ==
    /\ states' = Pop(stk)
    /\ index' = RestoreIndex(stk)
    /\ subcommandPath' = Append(subcommandPath, tok)
    /\ currentSubcommand' = id
    /\ found' = "none"
    /\ log' = log \o events \o << Ev("restore", id, tok, TRUE), Ev("push", id, tok, TRUE) >>
    /\ IF IsLeaf(tree, id)
       THEN pc' = "afterWalk" /\ UNCHANGED currentSubcommands
       ELSE pc' = "walk" /\ currentSubcommands' = id
    /\ UNCHANGED << result, error, message, ranNode >>

\* the checkpoint of the iteration left on the stack
CommitKeepsCheckpoint(id, tok, stk, idx, events) ==
    /\ states' = stk
    /\ index' = idx
    /\ subcommandPath' = Append(subcommandPath, tok)
    /\ currentSubcommand' = id
    /\ found' = "none"
    /\ log' = log \o events \o << Ev("push", id, tok, TRUE) >>
    /\ IF IsLeaf(tree, id)
       THEN pc' = "afterWalk" /\ UNCHANGED currentSubcommands
       ELSE pc' = "walk" /\ currentSubcommands' = id
    /\ UNCHANGED << result, error, message, ranNode >>

\* args.discard(); subcommandPath.push(next); currentSubcommand = found;
\* then break at a Leaf, descend into a Group
Commit(id, tok, stk, idx, events) ==
    /\ states' = Pop(stk)
    /\ index' = idx
    /\ subcommandPath' = Append(subcommandPath, tok)
    /\ currentSubcommand' = id
    /\ found' = "none"
    /\ log' = log \o events \o << Ev("discard", id, tok, TRUE), Ev("push", id, tok, TRUE) >>
    /\ IF IsLeaf(tree, id)
       THEN pc' = "afterWalk" /\ UNCHANGED currentSubcommands
       ELSE pc' = "walk" /\ currentSubcommands' = id
    /\ UNCHANGED << result, error, message, ranNode >>

\* the iteration with canRun awaited before the permission gate is looked at
WalkStepCanRunFirst ==
    /\ pc = "walk"
    /\ IF Finished(ordered, index)
       THEN /\ pc' = "afterWalk"
            /\ UNCHANGED << index, states, currentSubcommands, subcommandPath,
                            currentSubcommand, found, result, error, message,
                            ranNode, log >>
       ELSE LET stk == Save(states, index)
                next == NextMaybe(ordered, index)
                idx == index + 1
                f == FindSubcommand(tree, currentSubcommands, next)
                seen == << Ev("save", "none", NoTok, TRUE), Ev("next", "none", next, TRUE) >>
            IN  IF next = Word("") \/ f = "none"
                THEN NoMatch(stk, seen)
                ELSE IF Node(tree, f).hasCanRun
                THEN /\ pc' = "canRun"
                     /\ found' = f
                     /\ index' = idx
                     /\ states' = stk
                     /\ log' = log \o seen
                     /\ UNCHANGED << currentSubcommands, subcommandPath,
                                     currentSubcommand, result, error, message,
                                     ranNode >>
                ELSE IF PermissionRejects(tree, f, rootPermission)
                THEN /\ Throw("insufficient_permissions", << >>,
                              seen \o << Ev("permission", f, next, FALSE) >>)
                     /\ index' = idx
                     /\ states' = stk
                     /\ UNCHANGED << currentSubcommands, subcommandPath,
                                     currentSubcommand, found, ranNode >>
                ELSE Commit(f, next, stk, idx, seen \o << Ev("permission", f, next, TRUE) >>)
    /\ UNCHANGED << input, ordered, flags, options >>

\* one iteration of while (!args.finished), up to the awaited canRun
WalkStep ==
    /\ pc = "walk"
    /\ IF Finished(ordered, index)
       THEN /\ pc' = "afterWalk"
            /\ UNCHANGED << index, states, currentSubcommands, subcommandPath,
                            currentSubcommand, found, result, error, message, ranNode, log >>
       ELSE LET stk == Save(states, index)
                next == NextMaybe(ordered, index)
                idx == index + 1
                f == FindSubcommand(tree, currentSubcommands, next)
                seen == << Ev("save", "none", NoTok, TRUE), Ev("next", "none", next, TRUE) >>
            IN  IF next = Word("") \/ f = "none"
                THEN NoMatch(stk, seen)
                ELSE IF PermissionRejects(tree, f, rootPermission)
                THEN /\ Throw("insufficient_permissions",
                              << "You don't have permission to use the ",
                                 Node(tree, f).name, " subcommand." >>,
                              seen \o << Ev("permission", f, next, FALSE) >>)
                     /\ index' = idx
                     /\ states' = stk
                     /\ UNCHANGED << currentSubcommands, subcommandPath,
                                     currentSubcommand, found, ranNode >>
                ELSE IF Node(tree, f).hasCanRun
                THEN /\ pc' = "canRun"
                     /\ found' = f
                     /\ index' = idx
                     /\ states' = stk
                     /\ log' = log \o seen \o << Ev("permission", f, next, TRUE) >>
                     /\ UNCHANGED << currentSubcommands, subcommandPath,
                                     currentSubcommand, result, error, message, ranNode >>
                ELSE Commit(f, next, stk, idx, seen \o << Ev("permission", f, next, TRUE) >>)
    /\ UNCHANGED << input, ordered, flags, options >>

\* what canRun can return: a boolean or a string
CanRunVerdicts ==
    { [ type |-> "boolean", value |-> "true" ],
      [ type |-> "boolean", value |-> "false" ],
      [ type |-> "string", value |-> "" ],
      [ type |-> "string", value |-> "busy" ],
      [ type |-> "string", value |-> "true" ] }

\* only what is falsy rejecting
CanRunRejectsFalsy(verdict) == verdict.value \in { "false", "" }

\* typeof canRun === 'string', or !canRun
CanRunRejects(verdict) ==
    \/ verdict.type = "string"
    \/ verdict.type = "boolean" /\ verdict.value = "false"

\* the message of the rejection: the string returned, or the general one
CanRunMessage(t, id, verdict) ==
    IF verdict.type = "string"
    THEN << verdict.value >>
    ELSE << "You cannot use the ", Node(t, id).name, " subcommand." >>

\* the awaited predicate returned
EvCanRun(node, tok, verdict) ==
    [ op |-> "canRun", node |-> node, tok |-> tok, ok |-> ~CanRunRejects(verdict),
      verdict |-> verdict ]

\* await found.canRun(msg, ctx) returns true, false or a string
CanRunReturn ==
    /\ pc = "canRun"
    /\ \E verdict \in CanRunVerdicts :
          IF ~CanRunRejects(verdict)
          THEN Commit(found, ordered[index], states, index,
                      << EvCanRun(found, ordered[index], verdict) >>)
          ELSE /\ Throw("cannot_run_subcommand", CanRunMessage(tree, found, verdict),
                        << EvCanRun(found, ordered[index], verdict) >>)
               /\ UNCHANGED << index, states, currentSubcommands, subcommandPath,
                               currentSubcommand, found, ranNode >>
    /\ UNCHANGED << input, ordered, flags, options >>

(***************************************************************************)
(* createTextCommand(...).run after the walk: help, default fallback,      *)
(* execution.                                                              *)
(***************************************************************************)
\* whatever was reached run, Leaf or not
ExecuteAny(id, events) ==
    /\ pc' = "done"
    /\ result' = "ran"
    /\ ranNode' = id
    /\ log' = log \o events \o << Ev("run", id, NoTok, TRUE) >>
    /\ UNCHANGED << error, message >>

\* await currentSubcommand.run(...props), or invalid_subcommand for a Group
Execute(id, events) ==
    IF IsLeaf(tree, id)
    THEN /\ pc' = "done"
         /\ result' = "ran"
         /\ ranNode' = id
         /\ log' = log \o events \o << Ev("run", id, NoTok, TRUE) >>
         /\ UNCHANGED << error, message >>
    ELSE /\ Throw("invalid_subcommand",
                  << "Please specify a valid subcommand. Use " >>
                      \o [ i \in 1..Len(subcommandPath) |-> subcommandPath[i].name ]
                      \o << " --help to see available subcommands." >>,
                  events)
         /\ UNCHANGED ranNode

\* the first sibling taken where the default is to be
FallbackFirst(cur, t, owner) == IF cur = "none" THEN Subcommands(owner)[1] ELSE cur

\* if (!currentSubcommand) currentSubcommand = currentSubcommands.find(default)
Fallback(cur, t, owner) == IF cur = "none" THEN FindDefault(t, owner) ELSE cur

AfterWalk ==
    /\ pc = "afterWalk"
    /\ IF HasFlags(flags, { "help", "h" })
       THEN /\ pc' = "done"
            /\ result' = "help"
            /\ log' = Append(log, Ev("help",
                                     FindSubcommandByPath(tree, "root", subcommandPath),
                                     NoTok, TRUE))
            /\ UNCHANGED << currentSubcommand, error, message, ranNode >>
       ELSE LET sub == Fallback(currentSubcommand, tree, currentSubcommands)
            IN  /\ currentSubcommand' = sub
                /\ IF sub = "none"
                   THEN /\ Throw("subcommand_required",
                                 << "This command requires a subcommand." >>, << >>)
                        /\ UNCHANGED ranNode
                   ELSE Execute(sub, IF currentSubcommand = "none"
                                     THEN << Ev("default", sub, NoTok, TRUE) >>
                                     ELSE << >>)
    /\ UNCHANGED << input, ordered, flags, options, index, states, currentSubcommands,
                    subcommandPath, found >>

Next ==
    \/ CreateTextCommand
    \/ PreTextCommandRun
    \/ TextCommandAccepted
    \/ WalkStep
    \/ CanRunReturn
    \/ AfterWalk

Spec == Init /\ [][Next]_vars

(***************************************************************************)
(* The token stream on its own (Args over the parsed text): any user of    *)
(* the stream, a Leaf's handler or the dispatcher, calling its operations  *)
(* in any order.  mark remembers of the past what the laws of the stream   *)
(* speak of:                                                               *)
(*   since, depth  the cursor and the stack depth at the last save() after *)
(*                 which only next() and peek() were called (-1: none)     *)
(*   restored      what since was when the last operation, a restore(),    *)
(*                 was called (-1: none, or another operation)             *)
(*   phase, outer  1 after a save(), 2 after save(); next(); outer is the  *)
(*                 stack depth before that save()                          *)
(*   floor         the highest cursor at which a save(); next(); discard() *)
(*                 was completed                                           *)
(*   cleanFloor    the same, for a save() with no checkpoint outstanding   *)
(***************************************************************************)
\* the texts the stream is built from
StreamTexts ==
    { << >>,
      << Word("origin") >>,
      << Word("origin"), Word("add"), Word("status") >>,
      << Dashed("help"), Word("origin"), Word("add") >>,
      << Word("origin"), Dashed("help"), Word("add") >>,
      << Word("origin"), Word("add"), Dashed("h") >>,
      << Word("origin"), Keyed("depth", "1"), Word("add") >> }

StreamInit ==
    /\ tree = "A"
    /\ rootPermission = REGULAR
    /\ flagsConfig = "true"
    /\ optionsConfig = "true"
    /\ flagsPolicy = PolicyOf(flagsConfig)
    /\ optionsPolicy = PolicyOf(optionsConfig)
    /\ memberLevel = REGULAR
    /\ parameters \in StreamTexts
    /\ pc = "stream"
    /\ ordered = ParseOrdered(flagsPolicy, optionsPolicy, parameters)
    /\ flags = ParseFlags(flagsPolicy, optionsPolicy, parameters)
    /\ options = ParseOptions(flagsPolicy, optionsPolicy, parameters)
    /\ index = 0
    /\ states = << >>
    /\ currentSubcommands = "root"
    /\ subcommandPath = << >>
    /\ currentSubcommand = "none"
    /\ found = "none"
    /\ result = "pending"
    /\ error = "none"
    /\ message = << >>
    /\ suspended = NoFrame
    /\ payload = GuildMessage
    /\ EmptyRegistry
    /\ ranNode = "none"
    /\ log = << >>
    /\ mark = NoMark
    /\ NoArgument
    /\ NoHelp

\* the token under the cursor, or the miss indicator
Probe(ord, idx) == IF Finished(ord, idx) THEN NoTok ELSE NextMaybe(ord, idx)

\* what no operation of the stream touches
StreamFrame ==
    UNCHANGED << suspended, payload, registry, tree, rootPermission, flagsConfig, optionsConfig, flagsPolicy,
                 optionsPolicy, memberLevel, parameters, pc, ordered, walk,
                 argument, chunks >>

\* args.save()
ArgsSave ==
    /\ pc = "stream"
    /\ Len(states) < MaxDepth
    /\ states' = Save(states, index)
    /\ log' = << Ev("save", "none", NoTok, TRUE) >>
    /\ mark' = [ mark EXCEPT !.since = index, !.depth = Len(states), !.restored = -1,
                 !.phase = 1, !.outer = Len(states) ]
    /\ UNCHANGED << index, flags, options >>
    /\ StreamFrame

\* args.next(): the token under the cursor is consumed, or a miss
ArgsNext ==
    /\ pc = "stream"
    /\ index' = IF Finished(ordered, index) THEN index ELSE index + 1
    /\ log' = << Ev("next", "none", Probe(ordered, index), ~Finished(ordered, index)) >>
    /\ mark' = [ mark EXCEPT !.restored = -1,
                             !.phase = IF mark.phase = 1 /\ ~Finished(ordered, index)
                                       THEN 2 ELSE 0 ]
    /\ UNCHANGED << states, flags, options >>
    /\ StreamFrame

\* args.peek(): the token under the cursor is inspected, or a miss
ArgsPeek ==
    /\ pc = "stream"
    /\ log' = << Ev("peek", "none", Probe(ordered, index), ~Finished(ordered, index)) >>
    /\ mark' = [ mark EXCEPT !.restored = -1, !.phase = 0 ]
    /\ UNCHANGED << index, states, flags, options >>
    /\ StreamFrame

\* args.restore(): pop, and the cursor is the checkpoint's
ArgsRestore ==
    /\ pc = "stream"
    /\ states # << >>
    /\ index' = RestoreIndex(states)
    /\ states' = Pop(states)
    /\ log' = << Ev("restore", "none", NoTok, TRUE) >>
    /\ mark' = [ mark EXCEPT !.since = -1, !.restored = mark.since, !.phase = 0 ]
    /\ UNCHANGED << flags, options >>
    /\ StreamFrame

\* args.discard(): pop, and the cursor stays
ArgsDiscard ==
    /\ pc = "stream"
    /\ states # << >>
    /\ states' = Pop(states)
    /\ log' = << Ev("discard", "none", NoTok, TRUE) >>
    /\ mark' = [ mark EXCEPT
                   !.since = -1,
                   !.restored = -1,
                   !.phase = 0,
                   !.floor = IF mark.phase = 2 /\ index > @ THEN index ELSE @,
                   !.cleanFloor = IF mark.phase = 2 /\ mark.outer = 0 /\ index > @
                                  THEN index ELSE @ ]
    /\ UNCHANGED << index, flags, options >>
    /\ StreamFrame

\* the failing token consumed
ExtractSkipping(idx, taken, ok) == IF ok THEN idx + taken ELSE idx + 1

\* the cursor after an extraction: past what was taken, or where it was
Extract(idx, taken, ok) == IF ok THEN idx + taken ELSE idx

\* args.pick(type): the resolver accepts the token under the cursor or not;
\* on an empty stream the extraction fails
ArgsPick ==
    /\ pc = "stream"
    /\ \E accepted \in BOOLEAN :
          LET ok == accepted /\ ~Finished(ordered, index)
          IN  /\ index' = IF Finished(ordered, index) THEN index
                          ELSE Extract(index, 1, ok)
              /\ log' = << Ev("pick", "none", Probe(ordered, index), ok) >>
    /\ mark' = [ mark EXCEPT !.since = -1, !.restored = -1, !.phase = 0 ]
    /\ UNCHANGED << states, flags, options >>
    /\ StreamFrame

\* args.repeat(type): the resolver accepts the next taken tokens and fails
\* on the one after them (or the stream ends); no token taken is a failure
ArgsRepeat ==
    /\ pc = "stream"
    /\ \E taken \in 0..(Len(ordered) - index) :
          /\ index' = IF Finished(ordered, index) THEN index
                      ELSE IF taken = 0 THEN Extract(index, 1, FALSE)
                      ELSE Extract(index, taken, TRUE)
          /\ log' = << Ev("repeat", "none", Probe(ordered, index), taken > 0) >>
    /\ mark' = [ mark EXCEPT !.since = -1, !.restored = -1, !.phase = 0 ]
    /\ UNCHANGED << states, flags, options >>
    /\ StreamFrame

\* args.rest(type): the resolver accepts the remaining tokens joined or not
ArgsRest ==
    /\ pc = "stream"
    /\ \E accepted \in BOOLEAN :
          LET ok == accepted /\ ~Finished(ordered, index)
          IN  /\ index' = IF Finished(ordered, index) THEN index
                          ELSE Extract(index, Len(ordered) - index, ok)
              /\ log' = << Ev("rest", "none", Probe(ordered, index), ok) >>
    /\ mark' = [ mark EXCEPT !.since = -1, !.restored = -1, !.phase = 0 ]
    /\ UNCHANGED << states, flags, options >>
    /\ StreamFrame

\* the first value of the named option, or "" when there is none
GetOption(opts, name) ==
    LET at == { i \in 1..Len(opts) : opts[i][1] = name }
    IN  IF at = {} THEN "" ELSE opts[CHOOSE i \in at : \A j \in at : i <= j][2]

\* args.hasFlags('help', 'h'), as the dispatcher asks
ArgsHasFlags ==
    /\ pc = "stream"
    /\ log' = << Ev("hasFlags", "none", NoTok, HasFlags(flags, { "help", "h" })) >>
    /\ UNCHANGED << index, states, flags, options, mark >>
    /\ StreamFrame

\* args.getOption('depth')
ArgsGetOption ==
    /\ pc = "stream"
    /\ log' = << Ev("getOption", GetOption(options, "depth"), NoTok,
                    GetOption(options, "depth") # "") >>
    /\ UNCHANGED << index, states, flags, options, mark >>
    /\ StreamFrame

StreamNext ==
    \/ ArgsSave
    \/ ArgsNext
    \/ ArgsPeek
    \/ ArgsRestore
    \/ ArgsDiscard
    \/ ArgsPick
    \/ ArgsRepeat
    \/ ArgsRest
    \/ ArgsHasFlags
    \/ ArgsGetOption

StreamSpec == StreamInit /\ [][StreamNext]_vars

(***************************************************************************)
(* What the claims speak of.                                               *)
(***************************************************************************)
Logged(op) == { i \in 1..Len(log) : log[i].op = op }

\* the permission gate was evaluated for the subcommand and allowed
GateAllowed(id) == \E i \in Logged("permission") : log[i].node = id /\ log[i].ok

\* the canRun predicate was evaluated for the subcommand and allowed
CanRunAllowed(id) == \E i \in Logged("canRun") : log[i].node = id /\ log[i].ok

\* the level a subcommand requires: its own, or the one of the command
Required(id) ==
    IF Node(tree, id).hasPermission THEN Node(tree, id).permission ELSE rootPermission

HelpRequested == "help" \in flags \/ "h" \in flags

GateErrors == { "insufficient_permissions", "cannot_run_subcommand" }

Defaults(owner) == { id \in Range(Subcommands(owner)) : Node(tree, id).default }

\* the subcommand last committed, "none" before the first commit
LastPushed == IF Logged("push") = {} THEN "none"
              ELSE log[CHOOSE i \in Logged("push") : \A j \in Logged("push") : j <= i].node

\* the walk is over and stopped in the current sibling set without a match
StoppedUnmatched ==
    /\ pc = "done"
    /\ result \notin { "denied", "help" }
    /\ error \notin GateErrors
    /\ \/ currentSubcommands = "root" /\ LastPushed = "none"
       \/ currentSubcommands # "root" /\ LastPushed = currentSubcommands

\* C1: a Leaf's run is invoked only if, for the Leaf and every Group on the
\* route to it, the permission gate and (when declared) canRun were evaluated
\* and allowed, the default fallback included.
C1_RunOnlyAfterGates ==
    ranNode # "none" =>
        \A n \in Route(ranNode) :
            GateAllowed(n) /\ (Node(tree, n).hasCanRun => CanRunAllowed(n))

\* C2: a token that names (by name or alias) a subcommand requiring a level
\* above the caller's ends the dispatch with the permission error, and no
\* Leaf run is invoked.
C2_InsufficientLevelRejected ==
    \A i \in Logged("permission") :
        Required(log[i].node) > memberLevel =>
            /\ ~log[i].ok
            /\ pc = "done"
            /\ result = "error"
            /\ error = "insufficient_permissions"
            /\ ranNode = "none"

C2_Witness ==
    /\ pc = "done"
    /\ error = "insufficient_permissions"
    /\ memberLevel = REGULAR
    /\ \E i \in Logged("permission") :
          log[i].tok = Word("a") /\ Node(tree, log[i].node).permission = MODERATOR

\* C3: a caller whose level is at least the matched subcommand's required
\* level is never rejected by the permission gate, whatever the permission
\* of the root command.
C3_SufficientLevelPasses ==
    \A i \in Logged("permission") :
        Required(log[i].node) <= memberLevel => log[i].ok

\* C4: when the next positional names no sibling of the current set, the walk
\* restores its checkpoint and stops: the cursor and the checkpoint stack are
\* as before the step, the token is the next one of the stream, and the path
\* is unchanged.
C4_NoMatchRestores ==
    [][ ( /\ pc = "walk"
          /\ ~Finished(ordered, index)
          /\ FindSubcommand(tree, currentSubcommands, NextMaybe(ordered, index)) = "none" )
        => ( /\ pc' = "afterWalk"
             /\ index' = index
             /\ states' = states
             /\ subcommandPath' = subcommandPath
             /\ currentSubcommand' = currentSubcommand
             /\ ~Finished(ordered', index')
             /\ NextMaybe(ordered', index') = NextMaybe(ordered, index) ) ]_vars

C4_Witness ==
    /\ pc = "afterWalk"
    /\ Len(log) > 0
    /\ Last(log).op = "restore"
    /\ Len(subcommandPath) = 1
    /\ index = 1
    /\ states = << >>
    /\ NextMaybe(ordered, index) = Word("origin")

\* C5: when a gate rejects the matched token the checkpoint is restored: the
\* cursor is before the rejected token, the token is not in the path, and no
\* checkpoint of the dispatcher is outstanding.
C5_RejectionRestores ==
    error \in GateErrors =>
        /\ states = << >>
        /\ index = Len(subcommandPath)
        /\ ~Finished(ordered, index)
        /\ NextMaybe(ordered, index) = log[Len(log) - 1].tok

C7_DefaultAtEveryDepth ==
    ( /\ StoppedUnmatched
      /\ currentSubcommands # "root"
      /\ Cardinality(Defaults(currentSubcommands)) = 1 )
    => ( /\ currentSubcommand \in Defaults(currentSubcommands)
         /\ index = Len(subcommandPath)
         /\ IsLeaf(tree, currentSubcommand)
               => result = "ran" /\ ranNode = currentSubcommand )

\* C8: if no sibling matched and no sibling of the current set is flagged
\* default, dispatch fails with the "subcommand required" error, no Leaf run
\* is invoked, and the unmatched token is not consumed.
C8_NoDefaultRequiresSubcommand ==
    ( StoppedUnmatched /\ Defaults(currentSubcommands) = {} )
    => ( /\ result = "error"
         /\ error = "subcommand_required"
         /\ ranNode = "none"
         /\ index = Len(subcommandPath) )

C10_LeafCommitStopsWalk ==
    /\ \A i \in Logged("push") :
          /\ i > 1 /\ log[i-1].op = "discard" /\ log[i-1].tok = log[i].tok
          /\ IsLeaf(tree, log[i].node) =>
                \A j \in (i+1)..Len(log) : log[j].op \in { "help", "run" }
    /\ Cardinality(Logged("push")) = Len(subcommandPath)
    /\ \A k \in 1..Len(subcommandPath) :
          \E i \in Logged("push") :
             /\ Cardinality({ j \in Logged("push") : j <= i }) = k
             /\ log[i].tok = subcommandPath[k]
    /\ (pc \in { "walk", "canRun" } /\ LastPushed # "none") =>
          IsGroup(tree, LastPushed) /\ currentSubcommands = LastPushed
    /\ IsLeaf(tree, LastPushed) => index = Len(subcommandPath)

C10_Witness ==
    /\ pc = "done"
    /\ result = "ran"
    /\ ranNode = "status"
    /\ subcommandPath = << Word("status") >>
    /\ index = 1
    /\ ordered = << Word("status"), Word("status") >>

\* the names a token can match a subcommand by
NamesOf(t, id) == { Node(t, id).name } \cup Node(t, id).aliases

\* a sibling set with a name or alias carried twice, or with two defaults
Malformed(t) ==
    \E owner \in { "root" } \cup NodeIds :
        LET sibs == Subcommands(owner)
        IN  \/ \E i, j \in 1..Len(sibs) :
                  i # j /\ NamesOf(t, sibs[i]) \cap NamesOf(t, sibs[j]) # {}
            \/ Cardinality({ i \in 1..Len(sibs) : Node(t, sibs[i]).default }) > 1

\* C11: a tree with a duplicate name or alias in a sibling set, or with more
\* than one default in a sibling set, is rejected by createTextCommand: it
\* never gets past registration, and no dispatch runs against it.
C11_MalformedRejectedAtRegistration ==
    Malformed(tree) => pc = "create"

(***************************************************************************)
(* The parse on its own: a strategy built from any configuration           *)
(* (new FlagUnorderedStrategy(command.data.strategy)), then the parser run *)
(* on any text (messagePreParse).                                          *)
(***************************************************************************)
\* bare words, flag syntax, option syntax, and a separator with no value
ParsePieces ==
    { Word("origin"), Dashed("force"), Dashed("other"), Keyed("depth", "1"),
      Keyed("other", "1"), Keyed("depth", "") }

ParseInit ==
    /\ tree = "A"
    /\ rootPermission = REGULAR
    /\ flagsConfig \in Configs
    /\ optionsConfig \in Configs
    /\ flagsPolicy = "none"
    /\ optionsPolicy = "none"
    /\ memberLevel = REGULAR
    /\ parameters \in SeqsUpTo(ParsePieces, MaxParsed)
    /\ pc = "strategy"
    /\ ordered = << >>
    /\ flags = {}
    /\ options = << >>
    /\ index = 0
    /\ states = << >>
    /\ currentSubcommands = "root"
    /\ subcommandPath = << >>
    /\ currentSubcommand = "none"
    /\ found = "none"
    /\ result = "pending"
    /\ error = "none"
    /\ message = << >>
    /\ suspended = NoFrame
    /\ payload = GuildMessage
    /\ EmptyRegistry
    /\ ranNode = "none"
    /\ log = << >>
    /\ mark = NoMark
    /\ NoArgument
    /\ NoHelp

\* new FlagUnorderedStrategy(command.data.strategy)
NewStrategy ==
    /\ pc = "strategy"
    /\ flagsPolicy' = PolicyOf(flagsConfig)
    /\ optionsPolicy' = PolicyOf(optionsConfig)
    /\ pc' = "parse"
    /\ UNCHANGED << suspended, payload, registry, tree, rootPermission, flagsConfig, optionsConfig, memberLevel,
                    parameters, ordered, flags, options, index, states, walk,
                    log, mark, argument, chunks >>

\* new Parser(strategy).run(lexer.run(parameters))
ParserRun ==
    /\ pc = "parse"
    /\ ordered' = ParseOrdered(flagsPolicy, optionsPolicy, parameters)
    /\ flags' = ParseFlags(flagsPolicy, optionsPolicy, parameters)
    /\ options' = ParseOptions(flagsPolicy, optionsPolicy, parameters)
    /\ pc' = "parsed"
    /\ UNCHANGED << input, index, states, walk, log >>

ParseNext ==
    \/ NewStrategy
    \/ ParserRun

ParseSpec == ParseInit /\ [][ParseNext]_vars

(***************************************************************************)
(* The integer argument on its own: CoreInteger.run on any parameter with  *)
(* any bounds.  The parameter is its characters; the number it denotes is  *)
(* computed from them.                                                     *)
(***************************************************************************)
Digits == { "0", "1", "5" }

Chars == Digits \cup { "-", "a" }

DigitValue(c) == CASE c = "0" -> 0 [] c = "1" -> 1 [] c = "5" -> 5

\* the number a run of digits denotes
RECURSIVE ParseDigits(_)
ParseDigits(text) ==
    IF text = << >> THEN 0
    ELSE 10 * ParseDigits(SubSeq(text, 1, Len(text) - 1)) + DigitValue(Last(text))

\* the text is an integer: digits, after a minus sign or not
IsInteger(text) ==
    LET digits == IF text # << >> /\ text[1] = "-" THEN Tail(text) ELSE text
    IN  digits # << >> /\ \A i \in 1..Len(digits) : digits[i] \in Digits

\* the integer the text denotes
ParseInteger(text) ==
    IF text[1] = "-" THEN 0 - ParseDigits(Tail(text)) ELSE ParseDigits(text)

\* Result.ok(value)
Ok(v) ==
    [ ok |-> TRUE, value |-> v, identifier |-> "none", message |-> "none",
      parameter |-> << >> ]

\* Result.err(identifier)
Err(id) ==
    [ ok |-> FALSE, value |-> 0, identifier |-> id, message |-> "none",
      parameter |-> << >> ]

\* the bounds taken as excluded
ResolveIntegerExclusive(text, minimum, maximum) ==
    IF ~IsInteger(text) THEN Err("ArgumentIntegerError")
    ELSE IF ParseInteger(text) <= minimum THEN Err("ArgumentIntegerTooSmall")
    ELSE IF ParseInteger(text) >= maximum THEN Err("ArgumentIntegerTooLarge")
    ELSE Ok(ParseInteger(text))

\* resolveInteger(parameter, { minimum, maximum })
ResolveInteger(text, minimum, maximum) ==
    IF ~IsInteger(text) THEN Err("ArgumentIntegerError")
    ELSE IF ParseInteger(text) < minimum THEN Err("ArgumentIntegerTooSmall")
    ELSE IF ParseInteger(text) > maximum THEN Err("ArgumentIntegerTooLarge")
    ELSE Ok(ParseInteger(text))

\* CoreInteger.messages[identifier]
Message(id) ==
    CASE id = "ArgumentIntegerTooSmall" -> "The given number must be greater than minimum."
      [] id = "ArgumentIntegerTooLarge" -> "The given number must be less than maximum."
      [] id = "ArgumentIntegerError" -> "The argument did not resolve to a valid number."

\* the error built with the argument's name for identifier and no parameter
ArgumentErrorNamed(text, id) ==
    [ ok |-> FALSE, value |-> 0, identifier |-> "integer", message |-> Message(id),
      parameter |-> << >> ]

\* this.error({ parameter, identifier, message, context }): an Err holding
\* an ArgumentError with the identifier, its message and the parameter
ArgumentError(text, id) ==
    [ ok |-> FALSE, value |-> 0, identifier |-> id, message |-> Message(id),
      parameter |-> text ]

IntegerInit ==
    /\ tree = "A"
    /\ rootPermission = REGULAR
    /\ flagsConfig = "true"
    /\ optionsConfig = "true"
    /\ flagsPolicy = "all"
    /\ optionsPolicy = "all"
    /\ memberLevel = REGULAR
    /\ parameters = << >>
    /\ pc = "argument"
    /\ ordered = << >>
    /\ flags = {}
    /\ options = << >>
    /\ index = 0
    /\ states = << >>
    /\ currentSubcommands = "root"
    /\ subcommandPath = << >>
    /\ currentSubcommand = "none"
    /\ found = "none"
    /\ result = "pending"
    /\ error = "none"
    /\ message = << >>
    /\ suspended = NoFrame
    /\ payload = GuildMessage
    /\ EmptyRegistry
    /\ ranNode = "none"
    /\ log = << >>
    /\ mark = NoMark
    /\ parameter \in SeqsUpTo(Chars, MaxChars) \ { << >> }
    /\ context \in { c \in [ minimum : { 0, 1, 5 }, maximum : { 5, 10, 11 } ] :
                         c.minimum <= c.maximum }
    /\ resolved = NotRun
    /\ NoHelp

\* CoreInteger.run(parameter, context): the result of resolveInteger, its
\* error turned into the argument's error with the identifier's message
CoreIntegerRun ==
    /\ pc = "argument"
    /\ LET r == ResolveInteger(parameter, context.minimum, context.maximum)
       IN  resolved' = IF r.ok THEN r ELSE ArgumentError(parameter, r.identifier)
    /\ pc' = "resolved"
    /\ UNCHANGED << suspended, payload, registry, tree, rootPermission, flagsConfig, optionsConfig, flagsPolicy,
                    optionsPolicy, memberLevel, parameters, ordered, flags,
                    options, index, states, walk, log, mark, parameter, context,
                    chunks >>

IntegerNext == CoreIntegerRun

IntegerSpec == IntegerInit /\ [][IntegerNext]_vars

(***************************************************************************)
(* The help replies on their own: the lines generateHelp returned, of any  *)
(* lengths, split into blocks and replied one after the other.  A line is  *)
(* its number and its length; a block is the lines appended to it, each    *)
(* followed by a newline.                                                  *)
(***************************************************************************)
LineLengths == { 0, 10, 975, 1940, 1950, 1951 }

\* helpLines
Lines(lengths) == [ i \in 1..Len(lengths) |-> [ no |-> i, len |-> lengths[i] ] ]

\* currentMessage.length
RECURSIVE Length(_)
Length(block) ==
    IF block = << >> THEN 0 ELSE Length(Tail(block)) + Head(block).len + 1

\* the split that loses the message it closes
RECURSIVE ChunkLosing(_, _, _)
ChunkLosing(lines, sent, currentMessage) ==
    IF lines = << >>
    THEN IF currentMessage # << >> THEN Append(sent, currentMessage) ELSE sent
    ELSE IF Length(currentMessage) + Head(lines).len > Budget
         THEN ChunkLosing(Tail(lines), Append(sent, << >>), << Head(lines) >>)
         ELSE ChunkLosing(Tail(lines), sent, Append(currentMessage, Head(lines)))

\* for (const line of helpLines) { if (currentMessage.length + line.length >
\* 1950) { blocks.push(currentMessage); currentMessage = '' } currentMessage
\* += line + '\n' }  if (currentMessage) blocks.push(currentMessage)
RECURSIVE Chunk(_, _, _)
Chunk(lines, sent, currentMessage) ==
    IF lines = << >>
    THEN IF currentMessage # << >> THEN Append(sent, currentMessage) ELSE sent
    ELSE IF Length(currentMessage) + Head(lines).len > Budget
         THEN Chunk(Tail(lines), Append(sent, currentMessage), << Head(lines) >>)
         ELSE Chunk(Tail(lines), sent, Append(currentMessage, Head(lines)))

HelpInit ==
    /\ tree = "A"
    /\ rootPermission = REGULAR
    /\ flagsConfig = "true"
    /\ optionsConfig = "true"
    /\ flagsPolicy = "all"
    /\ optionsPolicy = "all"
    /\ memberLevel = REGULAR
    /\ parameters = << Dashed("help") >>
    /\ pc = "help"
    /\ ordered = << >>
    /\ flags = { "help" }
    /\ options = << >>
    /\ index = 0
    /\ states = << >>
    /\ currentSubcommands = "root"
    /\ subcommandPath = << >>
    /\ currentSubcommand = "none"
    /\ found = "none"
    /\ result = "pending"
    /\ error = "none"
    /\ message = << >>
    /\ suspended = NoFrame
    /\ payload = GuildMessage
    /\ EmptyRegistry
    /\ ranNode = "none"
    /\ log = << >>
    /\ mark = NoMark
    /\ NoArgument
    /\ helpLines \in SeqsUpTo(LineLengths, MaxLines)
    /\ blocks = << >>

\* the help branch of run: split helpLines into blocks, reply each, return
HelpReply ==
    /\ pc = "help"
    /\ HasFlags(flags, { "help", "h" })
    /\ blocks' = Chunk(Lines(helpLines), << >>, << >>)
    /\ pc' = "done"
    /\ result' = "help"
    /\ UNCHANGED << suspended, payload, registry, tree, rootPermission, flagsConfig, optionsConfig, flagsPolicy,
                    optionsPolicy, memberLevel, parameters, ordered, flags,
                    options, index, states, currentSubcommands, subcommandPath,
                    currentSubcommand, found, error, message, ranNode, log, mark,
                    argument, helpLines >>

HelpNext == HelpReply

HelpSpec == HelpInit /\ [][HelpNext]_vars

(***************************************************************************)
(* Two invocations of one command.  The event loop runs one of them at a   *)
(* time and passes to the other where the running one awaits; the          *)
(* variables hold the one that runs, suspended the one that waits.         *)
(***************************************************************************)
\* the texts of the two messages
PairTexts ==
    { << Word("remote"), Word("add"), Word("origin") >>,
      << Word("remote"), Word("a") >>,
      << Word("status"), Word("origin") >>,
      << Word("remote"), Dashed("help") >>,
      << Word("origin") >> }

\* what an invocation has of its own: its message, the Args made for it by
\* messagePreParse, and the locals of its call of run
Frame(over) ==
    [ memberLevel |-> memberLevel, parameters |-> parameters,
      flagsPolicy |-> flagsPolicy, optionsPolicy |-> optionsPolicy,
      pc |-> pc, ordered |-> ordered, flags |-> flags, options |-> options,
      index |-> index, states |-> states,
      currentSubcommands |-> currentSubcommands,
      subcommandPath |-> subcommandPath,
      currentSubcommand |-> currentSubcommand, found |-> found,
      result |-> result, error |-> error, message |-> message,
      ranNode |-> ranNode, log |-> log,
      overlap |-> over ]

\* an invocation not started yet
Fresh(level, pieces) ==
    [ memberLevel |-> level, parameters |-> pieces,
      flagsPolicy |-> "none", optionsPolicy |-> "none",
      pc |-> "pre", ordered |-> << >>, flags |-> {}, options |-> << >>,
      index |-> 0, states |-> << >>,
      currentSubcommands |-> "root", subcommandPath |-> << >>,
      currentSubcommand |-> "none", found |-> "none",
      result |-> "pending", error |-> "none", message |-> << >>,
      ranNode |-> "none", log |-> << >>,
      overlap |-> FALSE ]

\* one stream for the two invocations
ResumeSharedStream(frame, running) ==
    IF frame.pc \in { "pre", "accepted" }
    THEN frame
    ELSE [ frame EXCEPT !.index = running.index, !.states = running.states ]

\* the invocation taken up again has the Args of its own call of
\* messagePreParse and the locals of its own call of run
Resume(frame, running) == frame

\* the invocation is between the call of run and its end
InFlight(p) == p \in { "walk", "canRun", "afterWalk" }

PairInit ==
    /\ tree \in Trees
    /\ rootPermission \in { REGULAR, MODERATOR }
    /\ flagsConfig = "true"
    /\ optionsConfig = "true"
    /\ flagsPolicy = "none"
    /\ optionsPolicy = "none"
    /\ memberLevel \in { REGULAR, MODERATOR }
    /\ parameters \in PairTexts
    /\ pc = "pre"
    /\ ordered = << >>
    /\ flags = {}
    /\ options = << >>
    /\ index = 0
    /\ states = << >>
    /\ currentSubcommands = "root"
    /\ subcommandPath = << >>
    /\ currentSubcommand = "none"
    /\ found = "none"
    /\ result = "pending"
    /\ error = "none"
    /\ message = << >>
    /\ \E level \in { REGULAR, MODERATOR }, pieces \in PairTexts :
          suspended = Fresh(level, pieces)
    /\ payload = GuildMessage
    /\ EmptyRegistry
    /\ ranNode = "none"
    /\ log = << >>
    /\ mark = NoMark
    /\ NoArgument
    /\ NoHelp

\* the running invocation awaits (canRun, the Leaf's run, the reply of the
\* help) or has not begun: the other one is taken up
Switch ==
    /\ pc \in { "pre", "accepted", "canRun", "done" }
    /\ suspended.pc # "done"
    /\ LET over == suspended.overlap \/ (InFlight(pc) /\ InFlight(suspended.pc))
           f == Resume(suspended, Frame(over))
       IN  /\ suspended' = Frame(over)
           /\ memberLevel' = f.memberLevel
           /\ parameters' = f.parameters
           /\ flagsPolicy' = f.flagsPolicy
           /\ optionsPolicy' = f.optionsPolicy
           /\ pc' = f.pc
           /\ ordered' = f.ordered
           /\ flags' = f.flags
           /\ options' = f.options
           /\ index' = f.index
           /\ states' = f.states
           /\ currentSubcommands' = f.currentSubcommands
           /\ subcommandPath' = f.subcommandPath
           /\ currentSubcommand' = f.currentSubcommand
           /\ found' = f.found
           /\ result' = f.result
           /\ error' = f.error
           /\ message' = f.message
           /\ ranNode' = f.ranNode
           /\ log' = f.log
    /\ UNCHANGED << tree, rootPermission, flagsConfig, optionsConfig, mark,
                    argument, payload, registry, chunks >>

PairNext ==
    \/ PreTextCommandRun
    \/ TextCommandAccepted
    \/ WalkStep
    \/ CanRunReturn
    \/ AfterWalk
    \/ Switch

PairSpec == PairInit /\ [][PairNext]_vars

(***************************************************************************)
(* An invocation on its own, from the message to its end, as one function  *)
(* of the command, the caller, the text and what canRun returns.           *)
(***************************************************************************)
\* the walk loop from one iteration to its end
RECURSIVE SoloWalk(_, _, _, _, _)
SoloWalk(t, rootPerm, ord, verdicts, w) ==
    IF Finished(ord, w.index)
    THEN w
    ELSE LET stk == Save(w.states, w.index)
             next == NextMaybe(ord, w.index)
             f == FindSubcommand(t, w.currentSubcommands, next)
         IN  IF next = Word("") \/ f = "none"
             THEN [ w EXCEPT !.index = RestoreIndex(stk), !.states = Pop(stk) ]
             ELSE IF PermissionRejects(t, f, rootPerm)
             THEN [ w EXCEPT !.index = w.index + 1, !.states = stk,
                             !.error = "insufficient_permissions" ]
             ELSE IF Node(t, f).hasCanRun /\ CanRunRejects(Head(verdicts))
             THEN [ w EXCEPT !.index = w.index + 1, !.states = stk,
                             !.error = "cannot_run_subcommand" ]
             ELSE LET c == [ w EXCEPT !.index = w.index + 1,
                                      !.states = Pop(stk),
                                      !.subcommandPath = Append(@, next),
                                      !.currentSubcommand = f,
                                      !.currentSubcommands =
                                          IF IsLeaf(t, f) THEN @ ELSE f ]
                  IN  IF IsLeaf(t, f)
                      THEN c
                      ELSE SoloWalk(t, rootPerm, ord,
                                    IF Node(t, f).hasCanRun THEN Tail(verdicts)
                                                            ELSE verdicts,
                                    c)

\* how the invocation ends
Outcome(res, err, ran, path, idx, stk) ==
    [ result |-> res, error |-> err, ranNode |-> ran, subcommandPath |-> path,
      index |-> idx, states |-> stk ]

\* preTextCommandRun, messagePreParse and run, one after the other
Solo(t, rootPerm, level, fconfig, oconfig, pieces, verdicts) ==
    IF level < rootPerm
    THEN Outcome("denied", "Preconditions.PermissionLevel", "none", << >>, 0, << >>)
    ELSE LET ord == ParseOrdered(PolicyOf(fconfig), PolicyOf(oconfig), pieces)
             fl == ParseFlags(PolicyOf(fconfig), PolicyOf(oconfig), pieces)
             w == SoloWalk(t, rootPerm, ord, verdicts,
                           [ index |-> 0, states |-> << >>,
                             currentSubcommands |-> "root",
                             subcommandPath |-> << >>,
                             currentSubcommand |-> "none", error |-> "none" ])
             sub == Fallback(w.currentSubcommand, t, w.currentSubcommands)
         IN  IF w.error # "none"
             THEN Outcome("error", w.error, "none", w.subcommandPath, w.index, w.states)
             ELSE IF HasFlags(fl, { "help", "h" })
             THEN Outcome("help", "none", "none", w.subcommandPath, w.index, w.states)
             ELSE IF sub = "none"
             THEN Outcome("error", "subcommand_required", "none", w.subcommandPath,
                          w.index, w.states)
             ELSE IF IsLeaf(t, sub)
             THEN Outcome("ran", "none", sub, w.subcommandPath, w.index, w.states)
             ELSE Outcome("error", "invalid_subcommand", "none", w.subcommandPath,
                          w.index, w.states)

\* the operation the stream did last
LastOp == IF log = << >> THEN "none" ELSE Last(log).op

\* C12: save(), then any number of next() and peek(), then restore() puts
\* the cursor back at the index it had before the save(), and the checkpoint
\* stack back at the depth it had before the save().
C12_CheckpointLaw ==
    ( LastOp = "restore" /\ mark.restored # -1 )
    => ( index = mark.restored /\ Len(states) = mark.depth )

C12_Witness ==
    /\ LastOp = "restore"
    /\ mark.restored = 1
    /\ index = 1
    /\ Len(states) = 2
    /\ states[2] = 0

Extractions == { "pick", "repeat", "rest" }

\* C14: when the resolver called by pick, repeat or rest fails on the next
\* positional, the cursor is where it was before the extraction, and the
\* token the extraction failed on is still the next one of the stream.
C14_FailedExtractionKeepsCursor ==
    [][ ( LastOp' \in Extractions /\ ~Last(log').ok )
        => ( /\ index' = index
             /\ Probe(ordered', index') = Last(log').tok ) ]_vars

C14_Witness ==
    /\ LastOp \in Extractions
    /\ ~Last(log).ok
    /\ index = 1
    /\ Last(log).tok = Word("add")
    /\ Probe(ordered, index) = Word("add")

\* the text holds a help flag, at any place
HelpIn(pieces) == \E i \in 1..Len(pieces) : pieces[i] \in { Dashed("help"), Dashed("h") }

\* the value the text gives the option depth, "" when it gives none
DepthIn(pieces) ==
    IF \E i \in 1..Len(pieces) : pieces[i] = Keyed("depth", "1") THEN "1" ELSE ""

\* C15: no operation of the stream changes the flag set or the option map,
\* and hasFlags and getOption answer by the text alone, whatever the cursor:
\* the help check finds the help flag wherever it stands among the tokens.
C15_FlagsIndependentOfCursor ==
    [][ /\ flags' = flags
        /\ options' = options
        /\ LastOp' = "hasFlags" => Last(log').ok = HelpIn(parameters)
        /\ LastOp' = "getOption" => Last(log').node = DepthIn(parameters) ]_vars

C15_Witness ==
    /\ LastOp = "hasFlags"
    /\ Last(log).ok
    /\ index = 2
    /\ states # << >>
    /\ parameters = << Word("origin"), Word("add"), Dashed("h") >>

\* the pieces of the text written as a flag: a prefix and no separator
FlagSyntax == { p \in Range(parameters) : p.prefix = "--" /\ p.sep = "" }

\* the pieces of the text written as an option: prefix, name, separator, value
OptionSyntax ==
    { p \in Range(parameters) :
        p.prefix = "--" /\ p.name # "" /\ p.sep = "=" /\ p.value # "" }

\* C16: with a list of flag names, a piece prefix + name is the flag name if
\* the name is in the list; if it is not, the piece is no flag and is among
\* the positionals with its whole text (with ['force']: --force is the flag
\* force, --other the positional --other).
C16_FlagAllowList ==
    ( pc = "parsed" /\ flagsConfig = "listed" )
    => /\ \A p \in FlagSyntax :
             IF p.name \in { "force" }
             THEN p.name \in flags /\ p \notin Range(ordered)
             ELSE p.name \notin flags /\ p \in Range(ordered)
       /\ flags \subseteq { "force" }

C16_Witness ==
    /\ pc = "parsed"
    /\ flagsConfig = "listed"
    /\ parameters = << Dashed("force"), Dashed("other") >>
    /\ flags = { "force" }
    /\ ordered = << Dashed("other") >>

\* the configurations that allow none: false, omitted, an empty list
AllowNone == { "false", "omitted", "empty" }

\* C17: flags and options are each allow-all (true), allow-none (false,
\* omitted or an empty list) or allow-listed, one independently of the other:
\* under allow-none nothing is of that kind, under allow-all everything
\* written as that kind is of it, and the configuration of the flags decides
\* nothing about the options, nor the one of the options about the flags.
C17_PoliciesIndependent ==
    pc = "parsed"
    => /\ flagsConfig \in AllowNone => flags = {}
       /\ optionsConfig \in AllowNone => options = << >>
       /\ flagsConfig = "true" => flags = { p.name : p \in FlagSyntax }
       /\ optionsConfig = "true"
             => Range(options) = { << p.name, p.value >> : p \in OptionSyntax }
       /\ \A c \in Configs :
             /\ ParseOptions(PolicyOf(c), optionsPolicy, parameters) = options
             /\ ParseFlags(flagsPolicy, PolicyOf(c), parameters) = flags

C17_Witness ==
    /\ pc = "parsed"
    /\ flagsConfig = "omitted"
    /\ optionsConfig = "true"
    /\ parameters = << Dashed("force"), Keyed("other", "1") >>
    /\ flags = {}
    /\ options = << << "other", "1" >> >>
    /\ ordered = << Dashed("force") >>

\* C18: a piece written as an option (prefix, name, separator and value in
\* one piece) whose name is allowed is recorded as the option name -> value
\* and is no flag and no positional; one whose name is not allowed is among
\* the positionals with its whole text, and is no option and no flag.
C18_OptionSyntax ==
    pc = "parsed"
    => /\ \A p \in OptionSyntax :
             IF optionsConfig = "true" \/ (optionsConfig = "listed" /\ p.name = "depth")
             THEN << p.name, p.value >> \in Range(options) /\ p \notin Range(ordered)
             ELSE << p.name, p.value >> \notin Range(options) /\ p \in Range(ordered)
       /\ flags \subseteq { p.name : p \in FlagSyntax }
       /\ Len(options) + Len(ordered) + Cardinality(flags) <= Len(parameters)

C18_Witness ==
    /\ pc = "parsed"
    /\ flagsConfig = "true"
    /\ optionsConfig = "listed"
    /\ parameters = << Keyed("depth", "1"), Keyed("other", "1") >>
    /\ flags = {}
    /\ options = << << "depth", "1" >> >>
    /\ ordered = << Keyed("other", "1") >>

IntegerIdentifiers ==
    << "ArgumentIntegerTooSmall", "ArgumentIntegerTooLarge", "ArgumentIntegerError" >>

\* C20: the integer argument with bounds minimum and maximum accepts exactly
\* the integers from minimum to maximum, both included, with their value; an
\* integer below minimum is rejected as too small, one above maximum as too
\* large, a text that is no integer as a parse error, and the three
\* identifiers differ from one another.
C20_IntegerBounds ==
    /\ \A i, j \in 1..3 : i # j => IntegerIdentifiers[i] # IntegerIdentifiers[j]
    /\ pc = "resolved"
       => LET numeric == /\ parameter # << >>
                         /\ \A i \in 1..Len(parameter) :
                               parameter[i] \in Digits \/ (i = 1 /\ parameter[i] = "-")
                         /\ parameter # << "-" >>
              v == ParseInteger(parameter)
          IN  /\ resolved.ok <=> ( numeric /\ context.minimum <= v /\ v <= context.maximum )
              /\ resolved.ok => resolved.value = v
              /\ ~numeric => resolved.identifier = IntegerIdentifiers[3]
              /\ ( numeric /\ v < context.minimum )
                    => resolved.identifier = IntegerIdentifiers[1]
              /\ ( numeric /\ v > context.maximum )
                    => resolved.identifier = IntegerIdentifiers[2]

C20_Witness ==
    /\ pc = "resolved"
    /\ parameter = << "1", "1" >>
    /\ context = [ minimum |-> 1, maximum |-> 10 ]
    /\ ~resolved.ok
    /\ resolved.identifier = "ArgumentIntegerTooLarge"

RECURSIVE Flatten(_)
Flatten(bs) == IF bs = << >> THEN << >> ELSE Head(bs) \o Flatten(Tail(bs))

\* C22: the blocks replied, put one after the other, are the help lines each
\* followed by its newline, in their order: no line is dropped, doubled,
\* moved or cut in two.
C22_ChunksPreserveLines ==
    pc = "done" => Flatten(blocks) = Lines(helpLines)

C22_Witness ==
    /\ pc = "done"
    /\ helpLines = << 975, 975, 10 >>
    /\ Len(blocks) = 2
    /\ Len(blocks[1]) = 1
    /\ Len(blocks[2]) = 2

\* C23: every block replied holds at most 1950 characters of help text, so
\* that the reply with its wrapping holds at most 2000, and no block replied
\* is empty.
C23_ChunksWithinBudget ==
    pc = "done"
    => \A i \in 1..Len(blocks) :
          /\ blocks[i] # << >>
          /\ Length(blocks[i]) <= Budget
          /\ Length(blocks[i]) + 8 <= ReplyLimit

\* C24: with the help flag (help or h) in the text, once the walk has settled
\* the path without a gate rejecting, the dispatcher makes the help of the
\* node the path leads to and returns: no Leaf is run, no default is taken,
\* and no error is raised.
C24_HelpComesFirst ==
    ( /\ pc = "done"
      /\ HelpRequested
      /\ result # "denied"
      /\ error \notin GateErrors )
    => /\ result = "help"
       /\ error = "none"
       /\ ranNode = "none"
       /\ Logged("run") = {}
       /\ Logged("default") = {}
       /\ Logged("throw") = {}
       /\ Last(log).op = "help"
       /\ Last(log).node = IF subcommandPath = << >> THEN "root" ELSE currentSubcommand

C24_Witness ==
    /\ pc = "done"
    /\ result = "help"
    /\ tree = "A"
    /\ parameters = << Word("remote"), Dashed("help"), Word("origin") >>
    /\ Last(log).node = "remote"
    /\ index = 1

\* the event is the return of an awaited canRun
IsCanRun(e) == e.op = "canRun"

\* what canRun returned to the invocation, call after call
VerdictsIn(l) ==
    LET calls == SelectSeq(l, IsCanRun)
    IN  [ i \in 1..Len(calls) |-> calls[i].verdict ]

\* the invocation ended as it ends on its own
EndsAsAlone(f) ==
    f.pc = "done" =>
        Outcome(f.result, f.error, f.ranNode, f.subcommandPath, f.index, f.states)
            = Solo(tree, rootPermission, f.memberLevel, flagsConfig, optionsConfig,
                   f.parameters, VerdictsIn(f.log))

\* C25: two invocations of one command whose steps interleave where canRun
\* or the Leaf's run is awaited each resolve the path, consume the tokens
\* and end as they do alone: the cursor, the checkpoint stack and the path of
\* the one are not touched by the other.
C25_InvocationsIsolated ==
    /\ EndsAsAlone(Frame(FALSE))
    /\ EndsAsAlone(suspended)
    /\ (InFlight(pc) /\ pc # "afterWalk") =>
          /\ index = Len(subcommandPath) + (IF pc = "canRun" THEN 1 ELSE 0)
          /\ states = IF pc = "canRun" THEN << index - 1 >> ELSE << >>

C25_Witness ==
    /\ pc = "done"
    /\ suspended.pc = "done"
    /\ suspended.overlap
    /\ ranNode = "add"
    /\ index = 2
    /\ suspended.ranNode = "status"
    /\ suspended.index = 1

(***************************************************************************)
(* The accepted invocation to its end: every step that can be taken is     *)
(* taken in the end, the code of run being sequential and every awaited    *)
(* canRun returning.                                                       *)
(***************************************************************************)
\* the pieces of the texts walked to their end
WalkPieces ==
    { Word("remote"), Word("add"), Word("status"), Word("origin"), Dashed("help") }

WalkInit ==
    /\ tree \in Trees
    /\ rootPermission \in { REGULAR, MODERATOR }
    /\ flagsConfig = "true"
    /\ optionsConfig = "true"
    /\ flagsPolicy = "none"
    /\ optionsPolicy = "none"
    /\ memberLevel = MODERATOR
    /\ parameters \in SeqsUpTo(WalkPieces, MaxPieces)
    /\ pc = "accepted"
    /\ ordered = << >>
    /\ flags = {}
    /\ options = << >>
    /\ index = 0
    /\ states = << >>
    /\ currentSubcommands = "root"
    /\ subcommandPath = << >>
    /\ currentSubcommand = "none"
    /\ found = "none"
    /\ result = "pending"
    /\ error = "none"
    /\ message = << >>
    /\ suspended = NoFrame
    /\ payload = GuildMessage
    /\ EmptyRegistry
    /\ ranNode = "none"
    /\ log = << >>
    /\ mark = NoMark
    /\ NoArgument
    /\ NoHelp

WalkNext ==
    \/ TextCommandAccepted
    \/ WalkStep
    \/ CanRunReturn
    \/ AfterWalk

WalkSpec == WalkInit /\ [][WalkNext]_vars /\ WF_vars(WalkNext)

(***************************************************************************)
(* preTextCommandRun on any payload: a message in a guild or not, a        *)
(* command for direct messages or not, for every guild or for listed ones. *)
(***************************************************************************)
\* command.data.guilds: no array, an array holding the message's guild, or
\* an array without it
GuildsConfigs == { "omitted", "listed", "others" }

\* the level tested before the guild of the message is looked at
GlobalPreconditionsLevelFirst(p, level, perm) ==
    IF level < perm THEN "Preconditions.PermissionLevel"
    ELSE IF ~p.guild /\ ~p.dm THEN "Preconditions.GuildOnly"
    ELSE IF p.guilds = "others" /\ level < ADMINISTRATOR THEN "Preconditions.GuildOnly"
    ELSE "ok"

\* globalPreconditions: the identifier of the UserError, or "ok"
GlobalPreconditions(p, level, perm) ==
    IF ~p.guild /\ ~p.dm THEN "Preconditions.GuildOnly"
    ELSE IF level < perm THEN "Preconditions.PermissionLevel"
    ELSE IF p.guilds = "others" /\ level < ADMINISTRATOR THEN "Preconditions.GuildOnly"
    ELSE "ok"

\* message.client.emit(event, ...)
Emit(event) == Ev("emit", event, NoTok, TRUE)

PreInit ==
    /\ tree = "A"
    /\ rootPermission \in BLOCKED..OWNER
    /\ flagsConfig = "true"
    /\ optionsConfig = "true"
    /\ flagsPolicy = "none"
    /\ optionsPolicy = "none"
    /\ payload \in [ guild : BOOLEAN, dm : BOOLEAN, guilds : GuildsConfigs,
                      run : { "returns" }, onError : { "none" } ]
    /\ EmptyRegistry
    /\ payload.guild \/ payload.guilds # "listed"
    /\ memberLevel \in IF payload.guild THEN REGULAR..OWNER ELSE { REGULAR }
    /\ parameters = << >>
    /\ pc = "pre"
    /\ ordered = << >>
    /\ flags = {}
    /\ options = << >>
    /\ index = 0
    /\ states = << >>
    /\ currentSubcommands = "root"
    /\ subcommandPath = << >>
    /\ currentSubcommand = "none"
    /\ found = "none"
    /\ result = "pending"
    /\ error = "none"
    /\ message = << >>
    /\ suspended = NoFrame
    /\ ranNode = "none"
    /\ log = << >>
    /\ mark = NoMark
    /\ NoArgument
    /\ NoHelp

\* preTextCommandRun: TextCommandDenied with the error of the global
\* preconditions, or TextCommandAccepted
OnPreTextCommandRun ==
    /\ pc = "pre"
    /\ LET globalResult == GlobalPreconditions(payload, memberLevel, rootPermission)
       IN  IF globalResult # "ok"
           THEN /\ pc' = "done"
                /\ result' = "denied"
                /\ error' = globalResult
                /\ log' = Append(log, Emit("textCommandDenied"))
           ELSE /\ pc' = "accepted"
                /\ log' = Append(log, Emit("textCommandAccepted"))
                /\ UNCHANGED << result, error >>
    /\ UNCHANGED << input, ordered, flags, options, index, states, currentSubcommands,
                    subcommandPath, currentSubcommand, found, message, ranNode >>

PreNext == OnPreTextCommandRun

PreSpec == PreInit /\ [][PreNext]_vars

(***************************************************************************)
(* onTextCommandAccepted on any accepted payload: run returns or throws,   *)
(* the command has an onError or none, and onError ends in any way.        *)
(***************************************************************************)
\* how command.run ends: it returns, it throws a UserError of a gate of the
\* dispatcher, or it throws anything else
RunOutcomes == { "returns", "rejects", "throws" }

\* command.onError: not declared; a function that returns or throws before
\* it returns; a function whose promise is fulfilled or rejected later
OnErrorKinds == { "none", "returns", "throws", "resolves", "rejects" }

\* every run taken for a success
IsOkAlways(outcome) == TRUE

\* Result.fromAsync(...).isOk(): the callback did not throw
IsOk(outcome) == outcome = "returns"

\* the error of run emitted whatever onError does
RoutedAlways(kind) == "original"

\* the error TextCommandError is emitted with once onError has ended: the
\* error of run without an onError, the error of an onError that throws,
\* none after an onError that ends well
Routed(kind) ==
    CASE kind = "none" -> "original"
      [] kind \in { "throws", "rejects" } -> "handler"
      [] OTHER -> "nothing"

\* message.client.emit(Events.TextCommandError, error, ...)
EmitError(which) ==
    [ op |-> "emit", node |-> "textCommandError", tok |-> NoTok, ok |-> FALSE,
      error |-> which ]

\* message.client.emit(Events.TextCommandFinish, ..., { success })
EmitFinish(success) ==
    [ op |-> "emit", node |-> "textCommandFinish", tok |-> NoTok, ok |-> success ]

\* a call of a function of the command, and its end
Call(fn, phase) == [ op |-> phase, node |-> fn, tok |-> NoTok, ok |-> TRUE ]

\* TextCommandError, where there is an error to emit
ErrorEvents(which) == IF which = "nothing" THEN << >> ELSE << EmitError(which) >>

AcceptedInit ==
    /\ tree = "A"
    /\ rootPermission = REGULAR
    /\ flagsConfig = "true"
    /\ optionsConfig = "true"
    /\ flagsPolicy = "none"
    /\ optionsPolicy = "none"
    /\ payload \in [ guild : { TRUE }, dm : { FALSE }, guilds : { "omitted" },
                     run : RunOutcomes, onError : OnErrorKinds ]
    /\ EmptyRegistry
    /\ memberLevel = REGULAR
    /\ parameters \in PairTexts
    /\ pc = "accepted"
    /\ ordered = << >>
    /\ flags = {}
    /\ options = << >>
    /\ index = 0
    /\ states = << >>
    /\ currentSubcommands = "root"
    /\ subcommandPath = << >>
    /\ currentSubcommand = "none"
    /\ found = "none"
    /\ result = "pending"
    /\ error = "none"
    /\ message = << >>
    /\ suspended = NoFrame
    /\ ranNode = "none"
    /\ log = << >>
    /\ mark = NoMark
    /\ NoArgument
    /\ NoHelp

\* messagePreParse, then inside Result.fromAsync: emit TextCommandRun and
\* call command.run, which is awaited
AcceptedRun ==
    /\ pc = "accepted"
    /\ flagsPolicy' = PolicyOf(flagsConfig)
    /\ optionsPolicy' = PolicyOf(optionsConfig)
    /\ ordered' = ParseOrdered(flagsPolicy', optionsPolicy', parameters)
    /\ flags' = ParseFlags(flagsPolicy', optionsPolicy', parameters)
    /\ options' = ParseOptions(flagsPolicy', optionsPolicy', parameters)
    /\ log' = log \o << Emit("textCommandRun"), Call("run", "call") >>
    /\ pc' = "running"
    /\ UNCHANGED << suspended, payload, registry, tree, rootPermission, flagsConfig, optionsConfig,
                    memberLevel, parameters, mark, argument, chunks, index, states,
                    walk >>

\* the awaited run ends: TextCommandSuccess after a return; a throw is kept
\* by Result.fromAsync as the error of the result
AcceptedSettle ==
    /\ pc = "running"
    /\ pc' = "settled"
    /\ IF IsOk(payload.run)
       THEN /\ result' = "ran"
            /\ log' = log \o << Call("run", "return"), Emit("textCommandSuccess") >>
            /\ UNCHANGED error
       ELSE /\ result' = "error"
            /\ error' = IF payload.run = "rejects" THEN "cannot_run_subcommand"
                                                   ELSE "Error"
            /\ log' = Append(log, Call("run", "throw"))
    /\ UNCHANGED << input, ordered, flags, options, index, states, currentSubcommands,
                    subcommandPath, currentSubcommand, found, message, ranNode >>

\* result.inspectErr(async ...) is not awaited: its callback runs up to its
\* first await that suspends, then TextCommandFinish is emitted
AcceptedFinish ==
    /\ pc = "settled"
    /\ LET success == result = "ran"
           kind == payload.onError
       IN  IF success
           THEN /\ log' = Append(log, EmitFinish(TRUE))
                /\ pc' = "done"
           ELSE IF kind = "none"
           THEN /\ log' = log \o ErrorEvents(Routed(kind)) \o << EmitFinish(FALSE) >>
                /\ pc' = "done"
           ELSE IF kind \in { "returns", "throws" }
           THEN /\ log' = log \o << Call("onError", "call"),
                                    Call("onError", IF kind = "throws" THEN "throw"
                                                                        ELSE "return") >>
                              \o ErrorEvents(Routed(kind)) \o << EmitFinish(FALSE) >>
                /\ pc' = "done"
           ELSE /\ log' = log \o << Call("onError", "call"), EmitFinish(FALSE) >>
                /\ pc' = "onError"
    /\ UNCHANGED << input, ordered, flags, options, index, states, walk >>

\* the promise of onError is settled: the callback of inspectErr goes on
AcceptedOnErrorSettles ==
    /\ pc = "onError"
    /\ log' = log \o << Call("onError", IF payload.onError = "rejects" THEN "throw"
                                                                        ELSE "return") >>
                  \o ErrorEvents(Routed(payload.onError))
    /\ pc' = "done"
    /\ UNCHANGED << input, ordered, flags, options, index, states, walk >>

AcceptedNext ==
    \/ AcceptedRun
    \/ AcceptedSettle
    \/ AcceptedFinish
    \/ AcceptedOnErrorSettles

AcceptedSpec == AcceptedInit /\ [][AcceptedNext]_vars

(***************************************************************************)
(* TextCommandRegistry: commands are registered and unregistered in any    *)
(* order, and getHandler is asked for any name or alias.                   *)
(***************************************************************************)

\* getHandler(name) on the Maps hs and as: the command, or NoHandler for err
GetHandler(hs, as, name) ==
    LET byName == hs[name]
        alias == as[name]
    IN  IF byName # NoHandler THEN byName
        ELSE IF alias # Undefined THEN hs[alias]
        ELSE NoHandler

\* what the registry leaves alone: the state of the invocations
invocation ==
    << tree, rootPermission, flagsConfig, optionsConfig, flagsPolicy,
       optionsPolicy, memberLevel, parameters, mark, argument, suspended,
       payload, chunks, walk, pc, ordered, flags, options, index, states, log >>

RegistryInit ==
    /\ tree = "A"
    /\ rootPermission = REGULAR
    /\ flagsConfig = "true"
    /\ optionsConfig = "true"
    /\ flagsPolicy = "none"
    /\ optionsPolicy = "none"
    /\ memberLevel = REGULAR
    /\ parameters = << >>
    /\ pc = "registry"
    /\ ordered = << >>
    /\ flags = { }
    /\ options = << >>
    /\ index = 0
    /\ states = << >>
    /\ currentSubcommands = "root"
    /\ subcommandPath = << >>
    /\ currentSubcommand = "none"
    /\ found = "none"
    /\ result = "pending"
    /\ error = "none"
    /\ message = << >>
    /\ ranNode = "none"
    /\ log = << >>
    /\ mark = NoMark
    /\ suspended = NoFrame
    /\ payload = GuildMessage
    /\ EmptyRegistry
    /\ NoArgument
    /\ NoHelp

\* _register(handler)
Register(h) ==
    /\ pc = "registry"
    /\ handlers' = [ handlers EXCEPT ![h.name] = h ]
    /\ aliases' = [ k \in Keys |-> IF k \in h.aliases THEN h.name ELSE aliases[k] ]
    /\ UNCHANGED << handler, invocation >>

\* _unregister(handler)
Unregister(h) ==
    /\ pc = "registry"
    /\ handlers' = [ handlers EXCEPT ![h.name] = NoHandler ]
    /\ aliases' = [ k \in Keys |-> IF k \in h.aliases THEN Undefined ELSE aliases[k] ]
    /\ UNCHANGED << handler, invocation >>

\* _unregisterAll()
UnregisterAll ==
    /\ pc = "registry"
    /\ handlers' = [ k \in Keys |-> NoHandler ]
    /\ aliases' = [ k \in Keys |-> Undefined ]
    /\ UNCHANGED << handler, invocation >>

\* getHandler(name)
AskHandler(name) ==
    /\ pc = "registry"
    /\ handler' = [ name |-> name, handler |-> GetHandler(handlers, aliases, name) ]
    /\ UNCHANGED << handlers, aliases, invocation >>

RegistryNext ==
    \/ \E h \in TextCommands : Register(h)
    \/ \E h \in TextCommands : Unregister(h)
    \/ UnregisterAll
    \/ \E name \in Keys : AskHandler(name)

RegistrySpec == RegistryInit /\ [][RegistryNext]_vars

(***************************************************************************)
(* The registry of the built-in arguments.                                 *)
(***************************************************************************)
\* argumentResolvers: each lookup key with the class of its resolver
ArgumentResolvers ==
    << << "boolean", "CoreBoolean" >>,
       << "channel", "CoreChannel" >>,
       << "date", "CoreDate" >>,
       << "dmChannel", "CoreDMChannel" >>,
       << "emoji", "CoreEmoji" >>,
       << "float", "CoreFloat" >>,
       << "guildCategoryChannel", "CoreGuildCategoryChannel" >>,
       << "guildChannel", "CoreGuildChannel" >>,
       << "guildNewsChannel", "CoreGuildNewsChannel" >>,
       << "guildNewsThreadChannel", "CoreGuildNewsThreadChannel" >>,
       << "guildPrivateThreadChannel", "CoreGuildPrivateThreadChannel" >>,
       << "guildPublicThreadChannel", "CoreGuildPublicThreadChannel" >>,
       << "guildStageVoiceChannel", "CoreGuildStageVoiceChannel" >>,
       << "guildTextChannel", "CoreGuildTextChannel" >>,
       << "guildThreadChannel", "CoreGuildThreadChannel" >>,
       << "guildVoiceChannel", "CoreGuildVoiceChannel" >>,
       << "hyperlink", "CoreHyperlink" >>,
       << "integer", "CoreInteger" >>,
       << "member", "CoreMember" >>,
       << "message", "CoreMessage" >>,
       << "number", "CoreNumber" >>,
       << "role", "CoreRole" >>,
       << "string", "CoreString" >>,
       << "url", "CoreHyperlink" >>,
       << "user", "CoreUser" >>,
       << "enum", "CoreEnum" >> >>

\* the name each built-in gives to super({ name }) in its constructor
ResolverName(class) ==
    CASE class = "CoreBoolean" -> "boolean"
      [] class = "CoreChannel" -> "channel"
      [] class = "CoreDate" -> "date"
      [] class = "CoreDMChannel" -> "dmChannel"
      [] class = "CoreEmoji" -> "emoji"
      [] class = "CoreFloat" -> "float"
      [] class = "CoreGuildCategoryChannel" -> "guildCategoryChannel"
      [] class = "CoreGuildChannel" -> "guildChannel"
      [] class = "CoreGuildNewsChannel" -> "guildNewsChannel"
      [] class = "CoreGuildNewsThreadChannel" -> "guildNewsThreadChannel"
      [] class = "CoreGuildPrivateThreadChannel" -> "guildPrivateThreadChannel"
      [] class = "CoreGuildPublicThreadChannel" -> "guildPublicThreadChannel"
      [] class = "CoreGuildStageVoiceChannel" -> "guildStageVoiceChannel"
      [] class = "CoreGuildTextChannel" -> "guildTextChannel"
      [] class = "CoreGuildThreadChannel" -> "guildThreadChannel"
      [] class = "CoreGuildVoiceChannel" -> "guildVoiceChannel"
      [] class = "CoreHyperlink" -> "hyperlink"
      [] class = "CoreInteger" -> "integer"
      [] class = "CoreMember" -> "member"
      [] class = "CoreMessage" -> "message"
      [] class = "CoreNumber" -> "number"
      [] class = "CoreRole" -> "role"
      [] class = "CoreString" -> "string"
      [] class = "CoreUser" -> "user"
      [] class = "CoreEnum" -> "enum"

\* the keys resolvers are looked up by
ResolverKeys == { ArgumentResolvers[i][1] : i \in 1..Len(ArgumentResolvers) }

\* argumentResolvers[key].name
NameAt(key) ==
    ResolverName(ArgumentResolvers[CHOOSE i \in 1..Len(ArgumentResolvers) :
                                       ArgumentResolvers[i][1] = key][2])

\* C26: no two entries of the built-in registry carry the same resolver
\* name: each lookup key leads to a resolver with a name of its own, in the
\* registry any built-in argument that has run was taken from.
C26_ResolverNamesUnique ==
    pc = "resolved" =>
        \A k1, k2 \in ResolverKeys : k1 # k2 => NameAt(k1) # NameAt(k2)

\* C27: the gates run in order and short-circuit.  The canRun of a matched
\* subcommand is awaited only right after the permission gate allowed that
\* subcommand for that token, once per token taken; after a permission gate
\* that rejected nothing but the throw follows; and while canRun is awaited
\* no further token is taken: the cursor stays behind the matched token.
C27_GatesInOrder ==
    /\ \A i \in Logged("canRun") :
          /\ i > 1
          /\ log[i - 1].op = "permission"
          /\ log[i - 1].ok
          /\ log[i - 1].node = log[i].node
          /\ log[i - 1].tok = log[i].tok
    /\ \A i, j \in Logged("canRun") :
          i < j => \E k \in Logged("next") : i < k /\ k < j
    /\ \A i \in Logged("permission") :
          ~log[i].ok => /\ i + 1 = Len(log)
                        /\ log[i + 1].op = "throw"
                        /\ log[i + 1].node = "insufficient_permissions"
    /\ pc = "canRun" =>
          /\ Last(log).op = "permission"
          /\ Last(log).ok
          /\ Last(log).node = found
          /\ Last(log).tok = ordered[index]
          /\ Cardinality(Logged("next")) = Len(subcommandPath) + 1
          /\ index = Len(subcommandPath) + 1

C27_Witness ==
    /\ pc = "done"
    /\ tree = "B"
    /\ Cardinality(Logged("canRun")) = 2
    /\ \E i \in Logged("canRun") : log[i].node = "remote" /\ log[i].ok
    /\ \E i \in Logged("canRun") : log[i].node = "add" /\ ~log[i].ok
    /\ error = "cannot_run_subcommand"

\* where the log holds the return of canRun the invocation saw last
LastCanRun == CHOOSE i \in Logged("canRun") : \A j \in Logged("canRun") : j <= i

\* the return of canRun the invocation saw last
LastVerdict == log[LastCanRun]

\* C28: of what canRun returns only true allows.  A string rejects with the
\* user error cannot_run_subcommand whose message is that very string, false
\* rejects with the general message that names the subcommand, and after
\* either rejection no Leaf is run.
C28_CanRunVerdict ==
    Logged("canRun") # {} =>
        LET e == LastVerdict
            v == e.verdict
        IN  /\ e.ok <=> (v.type = "boolean" /\ v.value = "true")
            /\ (\E i \in Logged("push") : i > LastCanRun /\ log[i].node = e.node)
                  <=> (v.type = "boolean" /\ v.value = "true")
            /\ \A i \in Logged("canRun") : i # LastCanRun => log[i].ok
            /\ v.type = "string" =>
                  /\ pc = "done"
                  /\ result = "error"
                  /\ error = "cannot_run_subcommand"
                  /\ message = << v.value >>
                  /\ ranNode = "none"
                  /\ Logged("run") = {}
            /\ (v.type = "boolean" /\ v.value = "false") =>
                  /\ pc = "done"
                  /\ result = "error"
                  /\ error = "cannot_run_subcommand"
                  /\ message = << "You cannot use the ", Node(tree, e.node).name,
                                  " subcommand." >>
                  /\ ranNode = "none"
                  /\ Logged("run") = {}

C28_Witness ==
    /\ pc = "done"
    /\ Logged("canRun") # {}
    /\ LastVerdict.verdict = [ type |-> "string", value |-> "true" ]
    /\ LastVerdict.node = "status"
    /\ message = << "true" >>
    /\ ranNode = "none"

\* the identifiers of the user errors the dispatcher raises
DispatchErrors ==
    { "insufficient_permissions", "cannot_run_subcommand", "subcommand_required",
      "invalid_subcommand" }

\* how many times the invocation did the thing
Times(op) == Cardinality(Logged(op))

StackOps == { "save", "restore", "discard" }

\* the checkpoint popped at i was saved at k, in the same iteration: no
\* other push or pop lies between, and one token was taken
SavedInIteration(k, i) ==
    /\ k < i
    /\ log[k].op = "save"
    /\ \A j \in (k + 1)..(i - 1) : log[j].op \notin StackOps
    /\ Cardinality({ j \in (k + 1)..(i - 1) : log[j].op = "next" }) = 1

\* C30: during the walk every restore() and discard() of the dispatcher pops
\* a checkpoint the dispatcher saved in the same iteration of the loop, so
\* none is issued without a checkpoint of its own outstanding; and when the
\* walk has ended without raising an error the checkpoint stack is as deep
\* as when the walk began.
C30_CheckpointsBalanced ==
    /\ \A i \in Logged("restore") \cup Logged("discard") :
          \E k \in Logged("save") : SavedInIteration(k, i)
    /\ Len(states) = Times("save") - Times("restore") - Times("discard")
    /\ ( /\ pc \in { "walk", "afterWalk", "done" }
         /\ result # "denied"
         /\ error \notin GateErrors )
       => states = << >>

C30_Witness ==
    /\ pc = "done"
    /\ tree = "A"
    /\ parameters = << Word("remote"), Word("origin") >>
    /\ Times("save") = 2
    /\ Times("discard") = 1
    /\ Times("restore") = 1
    /\ index = 1
    /\ states = << >>
    /\ subcommandPath = << Word("remote") >>
    /\ error = "invalid_subcommand"

\* C31: over the iterations of the walk the cursor is never below the
\* checkpoint of the iteration, every iteration moves it on by one (commit)
\* or not at all (restore), and when the walk has ended the positionals
\* consumed are as many as the tokens of the path, which are those
\* positionals in their order.
C31_CursorMatchesPath ==
    /\ \A i \in 1..Len(states) : states[i] <= index
    /\ pc = "walk" => index = Len(subcommandPath)
    /\ pc = "canRun" => index = Len(subcommandPath) + 1
    /\ (pc \in { "afterWalk", "done" } /\ result # "denied") =>
          /\ index = Len(subcommandPath)
          /\ subcommandPath = SubSeq(ordered, 1, index)

\* the Groups nested under the owner, the owner's own sibling set counted
RECURSIVE Height(_)
Height(owner) ==
    IF Subcommands(owner) = << >>
    THEN 0
    ELSE 1 + CHOOSE h \in 0..Cardinality(NodeIds) :
                 /\ \E i \in 1..Len(Subcommands(owner)) : Height(Subcommands(owner)[i]) = h
                 /\ \A i \in 1..Len(Subcommands(owner)) : Height(Subcommands(owner)[i]) <= h

\* the invocation is over: help, a Leaf run or an error
Ended == pc = "done" /\ result \in { "help", "ran", "error" }

\* C32: for every text and tree, every awaited canRun returning, the walk
\* comes to its end: it makes at most one iteration for each positional and
\* at most as many commits as the tree is deep, and the invocation then
\* reaches help, the run of a Leaf or an error.
C32_WalkTerminates ==
    /\ [](Times("save") <= Len(ordered))
    /\ [](Times("push") <= Height("root"))
    /\ <>Ended
    /\ [](Ended => ~ENABLED WalkNext)

C32_Witness ==
    /\ Ended
    /\ result = "ran"
    /\ Len(ordered) = 3
    /\ Times("save") = 2
    /\ Times("push") = 2
    /\ Height("root") = 2
    /\ Times("canRun") = 1

\* C33: the lookup of the help agrees with the walk.  For every path the
\* walk has accumulated, its tokens being names or aliases,
\* findSubcommandByPath from the command returns the node the walk is at;
\* for the empty path it returns the command; it never finds the path
\* invalid.
C33_HelpLookupAgrees ==
    LET node == FindSubcommandByPath(tree, "root", subcommandPath)
    IN  /\ node # "invalid"
        /\ subcommandPath = << >> => node = "root"
        /\ subcommandPath # << >> =>
              /\ node = LastPushed
              /\ node \in NodeIds
              /\ Names(tree, node, Last(subcommandPath))
              /\ Len(subcommandPath) = Cardinality(Route(node))
        /\ (subcommandPath # << >> /\ pc \in { "walk", "afterWalk" }) =>
              node = currentSubcommand

C33_Witness ==
    /\ pc = "afterWalk"
    /\ tree = "D"
    /\ subcommandPath = << Word("remote"), Word("a") >>
    /\ currentSubcommand = "add"
    /\ FindSubcommandByPath(tree, "root", subcommandPath) = "add"

\* the piece is among the positionals, with its text
InOrdered(p) == p \in Range(ordered)

\* the piece is recorded in the flag set
InFlags(p) == p \in FlagSyntax /\ p.name \in flags

\* the piece is recorded in the options
InOptions(p) == p \in OptionSyntax /\ << p.name, p.value >> \in Range(options)

\* the pieces of the text that are among the positionals, in the text's order
KeptOrdered == SelectSeq(parameters, InOrdered)

\* the pieces of the text recorded as options, in the text's order
KeptOptions == SelectSeq(parameters, InOptions)

\* C34: the classification is a partition.  Every piece of the text ends in
\* exactly one of the positionals, the flag set and the options; the
\* positionals are pieces of the text in the order of the text, each with
\* its text unchanged.
C34_ClassificationPartitions ==
    pc = "parsed"
    => /\ \A i \in 1..Len(parameters) :
             LET p == parameters[i]
             IN  /\ InOrdered(p) \/ InFlags(p) \/ InOptions(p)
                 /\ ~(InOrdered(p) /\ InFlags(p))
                 /\ ~(InOrdered(p) /\ InOptions(p))
                 /\ ~(InFlags(p) /\ InOptions(p))
       /\ ordered = KeptOrdered
       /\ options = [ i \in 1..Len(KeptOptions) |->
                        << KeptOptions[i].name, KeptOptions[i].value >> ]
       /\ flags = { parameters[i].name :
                      i \in { j \in 1..Len(parameters) : InFlags(parameters[j]) } }

C34_Witness ==
    /\ pc = "parsed"
    /\ flagsConfig = "listed"
    /\ optionsConfig = "listed"
    /\ \E i, j \in 1..Len(parameters) :
          /\ i < j
          /\ parameters[i] = Dashed("other")
          /\ parameters[j] = Word("origin")
    /\ Len(ordered) = Len(parameters)
    /\ ordered[1] = Dashed("other")
    /\ flags = {}

\* the events emitted, in order
Emitted == [ i \in 1..Len(SelectSeq(log, LAMBDA e : e.op = "emit")) |->
               SelectSeq(log, LAMBDA e : e.op = "emit")[i].node ]

\* the message is outside a guild and the command is not for direct messages
OutsideGuild == ~payload.guild /\ ~payload.dm

At(op, node) == { i \in 1..Len(log) : log[i].op = op /\ log[i].node = node }

\* the handler is past its emission of TextCommandFinish
Finished36 == pc \in { "done", "onError" }

\* C36: for an accepted text command TextCommandRun is emitted before run
\* is invoked, TextCommandSuccess is emitted only if run ended without
\* throwing, and TextCommandFinish is emitted exactly once whatever the
\* outcome, with success true exactly when run did not throw; an error
\* thrown by run, that of a gate of the dispatcher included, stays in the
\* handler, which goes on to TextCommandFinish.
C36_RunSuccessFinish ==
    /\ \A i \in At("call", "run") : \E j \in At("emit", "textCommandRun") : j < i
    /\ Cardinality(At("emit", "textCommandRun")) <= 1
    /\ Cardinality(At("call", "run")) <= 1
    /\ \A i \in At("emit", "textCommandSuccess") :
          /\ payload.run = "returns"
          /\ \E j \in At("return", "run") : j < i
          /\ At("throw", "run") = {}
    /\ Cardinality(At("emit", "textCommandFinish")) = IF Finished36 THEN 1 ELSE 0
    /\ Finished36 =>
          /\ Cardinality(At("emit", "textCommandRun")) = 1
          /\ Cardinality(At("call", "run")) = 1
          /\ Cardinality(At("emit", "textCommandSuccess"))
                = IF payload.run = "returns" THEN 1 ELSE 0
          /\ \A i \in At("emit", "textCommandFinish") :
                /\ log[i].ok <=> payload.run = "returns"
                /\ log[i].ok <=> At("throw", "run") = {}
                /\ \A j \in At("emit", "textCommandSuccess") : j < i
    /\ (pc = "settled" /\ At("throw", "run") # {}) => ENABLED AcceptedFinish

C36_Witness ==
    /\ pc = "done"
    /\ payload.run = "rejects"
    /\ error = "cannot_run_subcommand"
    /\ payload.onError = "none"
    /\ At("emit", "textCommandSuccess") = {}
    /\ \E i \in At("emit", "textCommandFinish") : ~log[i].ok

\* the errors TextCommandError was emitted with, in order
ErrorsEmitted ==
    LET es == SelectSeq(log, LAMBDA e : e.op = "emit" /\ e.node = "textCommandError")
    IN  [ i \in 1..Len(es) |-> es[i].error ]

\* C37: when run throws and the command declares onError, onError is
\* invoked exactly once, and TextCommandError is emitted only if onError
\* itself throws, then with the error of onError in place of that of run;
\* when the command declares no onError, TextCommandError is emitted
\* exactly once with the error of run.  When run does not throw neither
\* happens.
C37_ErrorRouting ==
    /\ Cardinality(At("call", "onError")) <= 1
    /\ Len(ErrorsEmitted) <= 1
    /\ At("throw", "run") = {} => (At("call", "onError") = {} /\ ErrorsEmitted = << >>)
    /\ payload.onError = "none" => At("call", "onError") = {}
    /\ ErrorsEmitted = << "handler" >> => At("throw", "onError") # {}
    /\ ErrorsEmitted = << "original" >> => payload.onError = "none"
    /\ (pc = "done" /\ At("throw", "run") # {}) =>
          /\ payload.onError = "none" => ErrorsEmitted = << "original" >>
          /\ payload.onError # "none" =>
                /\ Cardinality(At("call", "onError")) = 1
                /\ payload.onError \in { "throws", "rejects" }
                      => ErrorsEmitted = << "handler" >>
                /\ payload.onError \in { "returns", "resolves" }
                      => ErrorsEmitted = << >>

C37_Witness ==
    /\ pc = "done"
    /\ payload.run = "throws"
    /\ payload.onError = "rejects"
    /\ Cardinality(At("call", "onError")) = 1
    /\ ErrorsEmitted = << "handler" >>

\* C38: TextCommandFinish is the last event of an invocation: neither the
\* end of its onError nor an emission of TextCommandError for it comes after
\* its TextCommandFinish, for an onError that is synchronous and for one
\* that is asynchronous.
C38_FinishIsLast ==
    \A i \in At("emit", "textCommandFinish") :
        /\ i = Len(log)
        /\ pc = "done"

\* the command is the one its name gives in the registry
Registered(c) == handlers[c.name] = c

\* what getHandler gives for every name and alias of the command
Reach(c) == [ k \in { c.name } \cup c.aliases |-> GetHandler(handlers, aliases, k) ]

\* C39: unregistering a registered command changes the reachability of that
\* command only: for every other command that is registered before and
\* after, getHandler by its name and by each of its declared aliases gives
\* what it gave before.
C39_UnregisterFrame ==
    [][ \A h \in TextCommands :
          (Registered(h) /\ Unregister(h)) =>
              \A c \in TextCommands \ { h } :
                  (Registered(c) /\ Registered(c)') => Reach(c)' = Reach(c) ]_vars

=============================================================================
